---- MODULE Spec2Model ----
(***************************************************************************)
(* Model of aiida-wannier90-workflows:                                     *)
(*   - Wannier90WorkChain (workflows/wannier.py): the stage pipeline       *)
(*     setup -> validate -> [relax] -> [scf] -> [nscf] -> [projwfc]        *)
(*     -> wannier90_pp -> pw2wannier90 -> wannier90 -> results             *)
(*   - QeBaseRestartWorkChain (workflows/base/qebaserestart.py): the       *)
(*     restart loop and its out-of-memory handler.                         *)
(* Python None is the empty tuple, a present value v is <<v>>.             *)
(***************************************************************************)
EXTENDS Integers, Sequences, FiniteSets, TLC

VARIABLES
    inputs,             \* self.inputs of the Wannier90WorkChain (fixed at launch)
    pc,                 \* position in the outline of Wannier90WorkChain
    ctx,                \* self.ctx: current_structure, current_folder, awaited children
    jobs,               \* status of the sub process of every stage
    job_inputs,         \* the inputs every submitted sub process was launched with
    outputs,            \* the output nodes of the sub processes that finished ok
    submitted,          \* the stages submitted so far, in order of submission
    reached,            \* the stages whose outline step has been executed
    exit_status,        \* exit status of the work chain (0 until it fails)
    max_iterations,     \* QeBaseRestartWorkChain: self.inputs.max_iterations
    rpc,                \* QeBaseRestartWorkChain: position in its outline
    rctx,               \* QeBaseRestartWorkChain: self.ctx (inputs, iteration, flags)
    calculation,        \* the calculation of the current iteration
    handled,            \* what the last call of the error handler did and returned
    reports,            \* the messages of report_error_handled, oldest first
    rexit_status,       \* exit status of the QeBaseRestartWorkChain
    fcall,              \* a call of a module-level function: its name and arguments
    fresult,            \* what that call returned or raised
    counts,             \* the counts the results step computed and read, None if not read
    messages            \* the messages the results step reported, oldest first

pvars == <<inputs, pc, ctx, jobs, job_inputs, outputs, submitted, reached, exit_status>>

rvars == <<max_iterations, rpc, rctx, calculation, handled, reports, rexit_status>>

fvars == <<fcall, fresult>>

tvars == <<counts, messages>>

vars == <<pvars, rvars, fvars, tvars>>

\* ---------------------------------------------------------------- Python values

None == <<>>

Some(v) == <<v>>

\* ---------------------------------------------------------------- bounds

\* largest band energy / window value (eV, integers) the model draws
MaxEnergy == 3

\* number of bands of the projwfc band structure
NumBands == 2

Energies == 1..MaxEnergy

\* ---------------------------------------------------------------- stages

Skippable == {"relax", "scf", "nscf", "projwfc"}

Stages == <<"relax", "scf", "nscf", "projwfc", "wannier90_pp", "pw2wannier90", "wannier90">>

StageSet == {Stages[i] : i \in 1..Len(Stages)}

StageIndex(s) == CHOOSE i \in 1..Len(Stages) : Stages[i] = s

\* exit codes of Wannier90WorkChain
ERROR_INVALID_INPUT_KPOINT_PATH == 401

ERROR_INVALID_INPUT_RELATIVE_DIS_WINDOWS == 402

\* the exit codes with inspect_nscf returning the code of the scf stage
ERROR_SUB_PROCESS_FAILED_WRONG(stage) ==
    CASE stage = "relax" -> 410
      [] stage = "scf" -> 420
      [] stage = "nscf" -> 420
      [] stage = "projwfc" -> 440
      [] stage = "wannier90_pp" -> 450
      [] stage = "pw2wannier90" -> 460
      [] stage = "wannier90" -> 470

\* ERROR_SUB_PROCESS_FAILED_<STAGE>, the code the inspect step of a stage returns
ERROR_SUB_PROCESS_FAILED(stage) ==
    CASE stage = "relax" -> 410
      [] stage = "scf" -> 420
      [] stage = "nscf" -> 430
      [] stage = "projwfc" -> 440
      [] stage = "wannier90_pp" -> 450
      [] stage = "pw2wannier90" -> 460
      [] stage = "wannier90" -> 470

\* ports of the work chain with a default value: always present in self.inputs
DefaultedPorts == {"clean_workdir", "relative_dis_windows", "auto_froz_max", "auto_froz_max_threshold"}

\* `name in self.inputs`
InInputs(name) == name \in inputs.namespaces \/ name \in DefaultedPorts

\* ---------------------------------------------------------------- input domains

WindowKeys == <<"dis_froz_min", "dis_froz_max", "dis_win_min", "dis_win_max">>

\* Wannier90 `parameters` without any window and without bands_plot
BaseParameters ==
    [bands_plot |-> None, num_wann |-> 1,
     dis_froz_min |-> None, dis_froz_max |-> None, dis_win_min |-> None, dis_win_max |-> None]

\* Wannier90 `parameters` dictionaries: the disentanglement windows and num_wann vary
WindowParametersSet ==
    { [BaseParameters EXCEPT !.num_wann = nw,
           !.dis_froz_min = w[1], !.dis_froz_max = w[2], !.dis_win_min = w[3], !.dis_win_max = w[4]] :
        nw \in 1..NumBands,
        w \in { <<None, None, None, None>>,
                <<None, Some(MaxEnergy), None, None>>,
                <<Some(1), Some(2), None, Some(MaxEnergy)>>,
                <<None, Some(1), Some(1), None>> } }

\* Wannier90 `parameters` dictionaries: bands_plot varies
PlotParametersSet ==
    { [BaseParameters EXCEPT !.bands_plot = bp] : bp \in {None, Some(TRUE), Some(FALSE)} }

\* pw2wannier90 `parameters['inputpp']` without SCDM projections
BaseInputpp ==
    [scdm_proj |-> FALSE, scdm_entanglement |-> None, scdm_mu |-> None, scdm_sigma |-> None]

\* pw2wannier90 `parameters['inputpp']` dictionaries
InputppSet ==
    { BaseInputpp,
      [scdm_proj |-> FALSE, scdm_entanglement |-> Some("erfc"), scdm_mu |-> None, scdm_sigma |-> None],
      [scdm_proj |-> TRUE, scdm_entanglement |-> Some("erfc"), scdm_mu |-> None, scdm_sigma |-> None],
      [scdm_proj |-> TRUE, scdm_entanglement |-> Some("erfc"), scdm_mu |-> Some(1), scdm_sigma |-> None],
      [scdm_proj |-> TRUE, scdm_entanglement |-> Some("erfc"), scdm_mu |-> Some(1), scdm_sigma |-> Some(1)],
      [scdm_proj |-> TRUE, scdm_entanglement |-> Some("gaussian"), scdm_mu |-> None, scdm_sigma |-> Some(1)],
      [scdm_proj |-> TRUE, scdm_entanglement |-> Some("isolated"), scdm_mu |-> None, scdm_sigma |-> None] }

\* the launches the model explores: every choice of the optional namespaces and
\* of relative_dis_windows, combined with input sets that vary what one step
\* reads (the windows for wannier90_pp, bands_plot/kpoint_path for the
\* validation, inputpp for pw2wannier90)
InputsSet ==
    { [namespaces |-> ns, relative_dis_windows |-> rel, parameters |-> v.parameters,
       kpoint_path |-> v.kpoint_path, auto_froz_max |-> v.auto_froz_max, inputpp |-> v.inputpp] :
        ns \in SUBSET Skippable, rel \in BOOLEAN,
        v \in { [parameters |-> p, kpoint_path |-> None, auto_froz_max |-> a, inputpp |-> BaseInputpp] :
                    p \in WindowParametersSet, a \in BOOLEAN }
              \cup
              { [parameters |-> p, kpoint_path |-> k, auto_froz_max |-> FALSE, inputpp |-> BaseInputpp] :
                    p \in PlotParametersSet, k \in {None, Some("path")} }
              \cup
              { [parameters |-> BaseParameters, kpoint_path |-> None, auto_froz_max |-> FALSE, inputpp |-> ip] :
                    ip \in InputppSet } }

\* scf `output_parameters` (the fields the work chain reads)
ScfOutputParameters ==
    [fermi_energy : {None, Some(1)}, fermi_energy_units : {None, Some("eV"), Some("Ry")}]

\* min(a, b)
Min(a, b) == IF a <= b THEN a ELSE b

\* projwfc band structures: bands[k][n] is the energy of band n at k-point k.
\* Two k-points; at each the bands rise by one from the lowest band, up to
\* MaxEnergy. The lowest band is at e at the first k-point and at 2 at the second.
BandsData ==
    { [k \in 1..2 |-> [n \in 1..NumBands |-> Min((IF k = 1 THEN e ELSE 2) + n - 1, MaxEnergy)]] :
        e \in Energies }

\* the calculations a finished Wannier90BaseWorkChain has called: pk and the
\* kmesh_tol its inputs carry. The first carries the declared kmesh_tol (1);
\* a second, if the work chain restarted, carries that one or a corrected one (2).
CalledSet ==
    { {[pk |-> 1, kmesh_tol |-> 1]} } \cup
    { {[pk |-> 1, kmesh_tol |-> 1], [pk |-> 2, kmesh_tol |-> t]} : t \in 1..2 }

\* the output nodes a sub process of a stage can have when it finished ok (the
\* ones the work chain reads). The ProjectionData is represented by the energy
\* that get_energy_of_projectability finds in it.
OutputsOf(stage) ==
    CASE stage = "scf" -> {[output_parameters |-> o] : o \in ScfOutputParameters}
      [] stage = "projwfc" -> {[bands |-> b, projections |-> e] : b \in BandsData, e \in Energies}
      [] stage = "wannier90_pp" -> {[called |-> c, nnkp_file |-> "nnkp"] : c \in CalledSet}
      [] OTHER -> {[remote_folder |-> stage]}

\* ---------------------------------------------------------------- pure functions

\* the stored value whatever the unit is
get_fermi_energy_any_unit(output_parameters) == output_parameters.fermi_energy

\* a value in Ry converted to eV (1 Ry is about 14 eV)
get_fermi_energy_rydberg(output_parameters) ==
    IF output_parameters.fermi_energy_units = Some("Ry") /\ output_parameters.fermi_energy # None
    THEN Some(output_parameters.fermi_energy[1] * 14)
    ELSE IF output_parameters.fermi_energy_units # Some("eV")
    THEN None
    ELSE output_parameters.fermi_energy

\* get_fermi_energy: the stored value if the unit is exactly 'eV', else None
get_fermi_energy(output_parameters) ==
    IF output_parameters.fermi_energy_units # Some("eV")
    THEN None
    ELSE output_parameters.fermi_energy

\* np.max(bands.get_bands()[:, n - 1])
MaxBandEnergy(bands, n) ==
    CHOOSE e \in {bands[k][n] : k \in DOMAIN bands} :
        \A k \in DOMAIN bands : e >= bands[k][n]

\* np.min(bands.get_bands()[:, n - 1])
MinBandEnergy(bands, n) ==
    CHOOSE e \in {bands[k][n] : k \in DOMAIN bands} :
        \A k \in DOMAIN bands : e <= bands[k][n]

\* get_energy_of_projectability(bands, projections, thresholds)
get_energy_of_projectability(bands, projections) == projections

\* a round that adds the Fermi energy twice
ShiftKeyTwice(parameters, k, fermi_energy) ==
    IF parameters[k] # None
    THEN [parameters EXCEPT ![k] = Some(parameters[k][1] + 2 * fermi_energy)]
    ELSE parameters

\* one round of `for k in keys`: parameters[k] += fermi_energy when the key is set
ShiftKey(parameters, k, fermi_energy) ==
    IF parameters[k] # None
    THEN [parameters EXCEPT ![k] = Some(parameters[k][1] + fermi_energy)]
    ELSE parameters

ShiftWindows(parameters, fermi_energy) ==
    ShiftKey(ShiftKey(ShiftKey(ShiftKey(parameters,
        WindowKeys[1], fermi_energy), WindowKeys[2], fermi_energy),
        WindowKeys[3], fermi_energy), WindowKeys[4], fermi_energy)

\* the awaited sub process has terminated (the engine resumes the outline)
Awaited(stage) == jobs[stage] \in {"finished_ok", "finished_failed"}

\* `job.is_finished` where `is_finished_ok` is meant
is_finished_any(stage) == jobs[stage] \in {"finished_ok", "finished_failed"}

\* `job.is_finished_ok`
is_finished_ok(stage) == jobs[stage] = "finished_ok"

\* prepare_wannier90_inputs. Result: the exception raised ("none" if none) and
\* the parameters dictionary of the bundle.
prepare_wannier90_inputs ==
    LET parameters == inputs.parameters
        scf_ran == "scf" \in ctx.keys
        projwfc_ran == "projwfc" \in ctx.keys
        fermi_energy == get_fermi_energy(outputs["scf"][1].output_parameters)
        bands == outputs["projwfc"][1].bands
        projections == outputs["projwfc"][1].projections
        shifted == IF scf_ran /\ fermi_energy # None /\ inputs.relative_dis_windows
                   THEN ShiftWindows(parameters, fermi_energy[1])
                   ELSE parameters
        with_auto == IF InInputs("auto_froz_max")
                     THEN [shifted EXCEPT !.dis_froz_max =
                               Some(get_energy_of_projectability(bands, projections))]
                     ELSE shifted
        capped == IF with_auto.dis_froz_max # None
                  THEN [with_auto EXCEPT !.dis_froz_max =
                            Some(Min(MinBandEnergy(bands, parameters.num_wann), with_auto.dis_froz_max[1]))]
                  ELSE with_auto
    IN  IF inputs.relative_dis_windows /\ ~scf_ran
        THEN [raised |-> "ValueError", parameters |-> parameters]
        ELSE IF inputs.relative_dis_windows /\ scf_ran /\ fermi_energy = None
        THEN [raised |-> "ValueError", parameters |-> parameters]
        ELSE IF scf_ran /\ fermi_energy = None
        THEN [raised |-> "ValueError", parameters |-> parameters]
        ELSE IF (InInputs("auto_froz_max") \/ shifted.dis_froz_max # None) /\ ~projwfc_ran
        THEN [raised |-> "AttributeError", parameters |-> parameters]
        ELSE [raised |-> "none", parameters |-> capped]

\* ---------------------------------------------------------------- initial state

NoInputs == [launched |-> FALSE]

NoCalculation == [pk |-> 0, status |-> "none", exit_status |-> 0, exit_message |-> None,
                  scheduler_stderr |-> None, inputs |-> NoInputs]

NotHandled == [called |-> FALSE]

NoCall == [function |-> "none"]

NoResult == [done |-> FALSE]

\* the counts of the results step, none computed or read yet
NoCounts ==
    [number_of_projections |-> None, num_proj |-> None,
     number_of_electrons |-> None, num_elec |-> None]

\* a launch of the Wannier90WorkChain (no QeBaseRestartWorkChain in the run)
Init ==
    /\ inputs \in InputsSet
    /\ pc = "setup"
    /\ ctx = [current_structure |-> "unset", current_folder |-> "unset", keys |-> {}]
    /\ jobs = [s \in StageSet |-> "none"]
    /\ job_inputs = [s \in StageSet |-> NoInputs]
    /\ outputs = [s \in StageSet |-> None]
    /\ submitted = <<>>
    /\ reached = {}
    /\ exit_status = 0
    /\ max_iterations = 0
    /\ rpc = "idle"
    /\ rctx = [iteration |-> 0]
    /\ calculation = NoCalculation
    /\ handled = NotHandled
    /\ reports = <<>>
    /\ rexit_status = 0
    /\ counts = NoCounts
    /\ messages = <<>>
    /\ fcall = NoCall
    /\ fresult = NoResult

\* largest number of orbitals projwfc reports and of electrons scf reports
MaxCount == 2

\* get_number_of_projections(structure, pseudos) and
\* get_number_of_electrons(structure, pseudos) for the structure and the
\* pseudos of the run
get_number_of_projections == 1

get_number_of_electrons == 1

\* ---------------------------------------------------------------- outline steps

\* a step returns an exit code: the work chain stops with it
Terminate(code) ==
    /\ pc' = "terminated"
    /\ exit_status' = code

\* a step raises: the work chain ends excepted, nothing the step did is kept
Except ==
    /\ pc' = "excepted"
    /\ UNCHANGED <<inputs, outputs, ctx, jobs, job_inputs, submitted, exit_status>>
    /\ UNCHANGED <<rvars, fvars, tvars>>

\* self.submit(...) followed by ToContext(...)
Submit(stage, launch_inputs, next) ==
    /\ jobs' = [jobs EXCEPT ![stage] = "running"]
    /\ job_inputs' = [job_inputs EXCEPT ![stage] = launch_inputs]
    /\ submitted' = Append(submitted, stage)
    /\ ctx' = [ctx EXCEPT !.keys = @ \cup {stage}]
    /\ pc' = next
    /\ UNCHANGED <<inputs, outputs, exit_status>>
    /\ UNCHANGED <<rvars, fvars, tvars>>

setup ==
    /\ pc = "setup"
    /\ ctx' = [ctx EXCEPT !.current_structure = "input"]
    /\ pc' = "validate_parameters"
    /\ UNCHANGED <<inputs, outputs, jobs, job_inputs, submitted, reached, exit_status>>
    /\ UNCHANGED <<rvars, fvars, tvars>>

\* the check of kpoint_path without the test of bands_plot
KpointPathMissingOnly == inputs.kpoint_path = None

\* `bands_plot` is set and true, and no kpoint_path is given
KpointPathMissing ==
    LET bands_plot == IF inputs.parameters.bands_plot = None
                      THEN FALSE
                      ELSE inputs.parameters.bands_plot[1]
    IN  bands_plot /\ inputs.kpoint_path = None

validate_parameters ==
    /\ pc = "validate_parameters"
    /\ IF KpointPathMissing
       THEN Terminate(ERROR_INVALID_INPUT_KPOINT_PATH)
       ELSE pc' = "relax" /\ UNCHANGED exit_status
    /\ UNCHANGED <<inputs, outputs, ctx, jobs, job_inputs, submitted, reached>>
    /\ UNCHANGED <<rvars, fvars, tvars>>

should_run_relax == InInputs("relax")

should_run_scf == InInputs("scf")

should_run_nscf == InInputs("nscf")

should_run_projwfc == InInputs("projwfc")

\* the sub process of a stage ends: finished ok with its output nodes, or failed
JobFinishes ==
    /\ \E stage \in StageSet :
        /\ jobs[stage] = "running"
        /\ \/ /\ jobs' = [jobs EXCEPT ![stage] = "finished_ok"]
              /\ \E o \in OutputsOf(stage) : outputs' = [outputs EXCEPT ![stage] = Some(o)]
           \/ /\ jobs' = [jobs EXCEPT ![stage] = "finished_failed"]
              /\ UNCHANGED outputs
    /\ UNCHANGED <<inputs, pc, ctx, job_inputs, submitted, reached, exit_status>>
    /\ UNCHANGED <<rvars, fvars, tvars>>

\* an inspect step that stores the outputs in the context before it looks at
\* the state of the job
InspectStoresFirst(stage, code, next, ctx_after) ==
    /\ pc = "inspect_" \o stage
    /\ Awaited(stage)
    /\ ctx' = ctx_after
    /\ IF ~is_finished_ok(stage)
       THEN Terminate(code)
       ELSE pc' = next /\ UNCHANGED exit_status
    /\ UNCHANGED <<inputs, outputs, jobs, job_inputs, submitted, reached>>
    /\ UNCHANGED <<rvars, fvars, tvars>>

\* the shared shape of the inspect_* steps
Inspect(stage, code, next, ctx_after) ==
    /\ pc = "inspect_" \o stage
    /\ Awaited(stage)
    /\ IF ~is_finished_ok(stage)
       THEN Terminate(code) /\ UNCHANGED ctx
       ELSE pc' = next /\ ctx' = ctx_after /\ UNCHANGED exit_status
    /\ UNCHANGED <<inputs, outputs, jobs, job_inputs, submitted, reached>>
    /\ UNCHANGED <<rvars, fvars, tvars>>

run_relax ==
    /\ pc = "relax"
    /\ should_run_relax
    /\ reached' = reached \cup {"relax"}
    /\ Submit("relax", [launched |-> TRUE, structure |-> ctx.current_structure], "inspect_relax")

skip_relax ==
    /\ pc = "relax"
    /\ ~should_run_relax
    /\ reached' = reached \cup {"relax"}
    /\ pc' = "scf"
    /\ UNCHANGED <<inputs, outputs, ctx, jobs, job_inputs, submitted, exit_status>>
    /\ UNCHANGED <<rvars, fvars, tvars>>

inspect_relax ==
    Inspect("relax", ERROR_SUB_PROCESS_FAILED("relax"), "scf",
            [ctx EXCEPT !.current_structure = "relaxed"])

run_scf ==
    /\ pc = "scf"
    /\ should_run_scf
    /\ reached' = reached \cup {"scf"}
    /\ Submit("scf", [launched |-> TRUE, structure |-> ctx.current_structure], "inspect_scf")

skip_scf ==
    /\ pc = "scf"
    /\ ~should_run_scf
    /\ reached' = reached \cup {"scf"}
    /\ pc' = "nscf"
    /\ UNCHANGED <<inputs, outputs, ctx, jobs, job_inputs, submitted, exit_status>>
    /\ UNCHANGED <<rvars, fvars, tvars>>

inspect_scf ==
    Inspect("scf", ERROR_SUB_PROCESS_FAILED("scf"), "nscf",
            [ctx EXCEPT !.current_folder = "scf"])

run_nscf ==
    /\ pc = "nscf"
    /\ should_run_nscf
    /\ reached' = reached \cup {"nscf"}
    /\ IF ctx.current_folder = "unset"
       THEN Except
       ELSE Submit("nscf", [launched |-> TRUE, structure |-> ctx.current_structure,
                            parent_folder |-> ctx.current_folder], "inspect_nscf")

skip_nscf ==
    /\ pc = "nscf"
    /\ ~should_run_nscf
    /\ reached' = reached \cup {"nscf"}
    /\ pc' = "projwfc"
    /\ UNCHANGED <<inputs, outputs, ctx, jobs, job_inputs, submitted, exit_status>>
    /\ UNCHANGED <<rvars, fvars, tvars>>

inspect_nscf ==
    Inspect("nscf", ERROR_SUB_PROCESS_FAILED("nscf"), "projwfc",
            [ctx EXCEPT !.current_folder = "nscf"])

run_projwfc ==
    /\ pc = "projwfc"
    /\ should_run_projwfc
    /\ reached' = reached \cup {"projwfc"}
    /\ IF ctx.current_folder = "unset"
       THEN Except
       ELSE Submit("projwfc", [launched |-> TRUE, parent_folder |-> ctx.current_folder],
                   "inspect_projwfc")

skip_projwfc ==
    /\ pc = "projwfc"
    /\ ~should_run_projwfc
    /\ reached' = reached \cup {"projwfc"}
    /\ pc' = "run_wannier90_pp"
    /\ UNCHANGED <<inputs, outputs, ctx, jobs, job_inputs, submitted, exit_status>>
    /\ UNCHANGED <<rvars, fvars, tvars>>

inspect_projwfc ==
    Inspect("projwfc", ERROR_SUB_PROCESS_FAILED("projwfc"), "run_wannier90_pp", ctx)

run_wannier90_pp ==
    /\ pc = "run_wannier90_pp"
    /\ reached' = reached \cup {"wannier90_pp"}
    /\ LET prepared == prepare_wannier90_inputs
       IN  IF prepared.raised # "none"
           THEN Except
           ELSE Submit("wannier90_pp",
                       [launched |-> TRUE, structure |-> ctx.current_structure,
                        parameters |-> prepared.parameters,
                        postproc_setup |-> TRUE],
                       "inspect_wannier90_pp")

\* an inspect step of wannier90_pp that takes over the folder of its job
inspect_wannier90_pp_sets_folder ==
    Inspect("wannier90_pp", ERROR_SUB_PROCESS_FAILED("wannier90_pp"), "run_pw2wannier90",
            [ctx EXCEPT !.current_folder = "wannier90_pp"])

inspect_wannier90_pp ==
    Inspect("wannier90_pp", ERROR_SUB_PROCESS_FAILED("wannier90_pp"), "run_pw2wannier90", ctx)

\* the fit condition without the test of scdm_proj
calc_scdm_params_any_proj(inputpp) ==
    /\ inputpp.scdm_entanglement = Some("erfc")
    /\ (inputpp.scdm_mu = None \/ inputpp.scdm_sigma = None)

\* calc_scdm_params: whether scdm_mu / scdm_sigma are to be fitted
calc_scdm_params(inputpp) ==
    /\ inputpp.scdm_proj
    /\ inputpp.scdm_entanglement = Some("erfc")
    /\ (inputpp.scdm_mu = None \/ inputpp.scdm_sigma = None)

\* an update that writes both fitted values whatever the inputs carry
update_scdm_mu_sigma_overwrites(inputpp, mu_new, sigma_new) ==
    [inputpp EXCEPT !.scdm_mu = Some(mu_new), !.scdm_sigma = Some(sigma_new)]

\* update_scdm_mu_sigma: inputpp with the fitted scdm_mu / scdm_sigma written
\* where the key is not in the dictionary
update_scdm_mu_sigma(inputpp, mu_new, sigma_new) ==
    [inputpp EXCEPT
        !.scdm_mu = IF @ = None THEN Some(mu_new) ELSE @,
        !.scdm_sigma = IF @ = None THEN Some(sigma_new) ELSE @]

\* prepare_pw2wannier90_inputs, given the (mu, sigma) the erfc fit returns and
\* whether the fit succeeds. Result: exception raised, the inputpp dictionary,
\* and whether update_scdm_mu_sigma was called.
prepare_pw2wannier90_inputs(mu_new, sigma_new, fit_ok) ==
    LET inputpp == inputs.inputpp
        updated == update_scdm_mu_sigma(inputpp, mu_new, sigma_new)
    IN  IF ctx.current_folder = "unset"
        THEN [raised |-> "AttributeError", inputpp |-> inputpp, fitted |-> FALSE]
        ELSE IF /\ inputpp.scdm_entanglement = Some("gaussian")
                /\ (inputpp.scdm_mu = None \/ inputpp.scdm_sigma = None)
        THEN [raised |-> "ValueError", inputpp |-> inputpp, fitted |-> FALSE]
        ELSE IF calc_scdm_params(inputpp) /\ "projwfc" \notin ctx.keys
        THEN [raised |-> "ValueError", inputpp |-> inputpp, fitted |-> FALSE]
        ELSE IF calc_scdm_params(inputpp) /\ ~fit_ok
        THEN [raised |-> "ValueError", inputpp |-> inputpp, fitted |-> TRUE]
        ELSE IF calc_scdm_params(inputpp)
        THEN [raised |-> "none", inputpp |-> updated, fitted |-> TRUE]
        ELSE [raised |-> "none", inputpp |-> inputpp, fitted |-> FALSE]

run_pw2wannier90 ==
    /\ pc = "run_pw2wannier90"
    /\ reached' = reached \cup {"pw2wannier90"}
    /\ \E mu_new \in Energies, sigma_new \in Energies, fit_ok \in BOOLEAN :
        LET prepared == prepare_pw2wannier90_inputs(mu_new, sigma_new, fit_ok)
        IN  IF prepared.raised # "none"
            THEN Except
            ELSE Submit("pw2wannier90",
                        [launched |-> TRUE, parent_folder |-> ctx.current_folder,
                         nnkp_file |-> outputs["wannier90_pp"][1].nnkp_file,
                         inputpp |-> prepared.inputpp, fitted |-> prepared.fitted],
                        "inspect_pw2wannier90")

inspect_pw2wannier90 ==
    Inspect("pw2wannier90", ERROR_SUB_PROCESS_FAILED("pw2wannier90"), "run_wannier90",
            [ctx EXCEPT !.current_folder = "pw2wannier90"])

\* the calculation with the smallest pk
FirstCalc(called) == CHOOSE c \in called : \A d \in called : c.pk <= d.pk

\* max(called, key=lambda calc: calc.pk)
LastCalc(called) == CHOOSE c \in called : \A d \in called : d.pk <= c.pk

\* calc.inputs of a calculation the Wannier90BaseWorkChain of wannier90_pp
\* called: what the work chain was launched with, kmesh_tol as that
\* calculation carries it
CalcInputs(calc) ==
    [structure |-> job_inputs["wannier90_pp"].structure,
     parameters |-> job_inputs["wannier90_pp"].parameters,
     kmesh_tol |-> calc.kmesh_tol,
     postproc_setup |-> job_inputs["wannier90_pp"].postproc_setup]

\* a merge in which the keys already in `declared` keep their value
KeepDeclared(declared, copied) ==
    [key \in DOMAIN declared \cup DOMAIN copied |->
        IF key \in DOMAIN declared THEN declared[key] ELSE copied[key]]

\* for key in last_calc.inputs: inputs[key] = last_calc.inputs[key]
CopyInputs(declared, copied) ==
    [key \in DOMAIN declared \cup DOMAIN copied |->
        IF key \in DOMAIN copied THEN copied[key] ELSE declared[key]]

run_wannier90 ==
    /\ pc = "run_wannier90"
    /\ reached' = reached \cup {"wannier90"}
    /\ LET last_calc == LastCalc(outputs["wannier90_pp"][1].called)
           declared == [launched |-> TRUE, parameters |-> inputs.parameters,
                        remote_input_folder |-> ctx.current_folder]
           copied == CopyInputs(declared, CalcInputs(last_calc))
       IN  Submit("wannier90", [copied EXCEPT !.postproc_setup = FALSE], "inspect_wannier90")

inspect_wannier90 ==
    Inspect("wannier90", ERROR_SUB_PROCESS_FAILED("wannier90"), "results",
            [ctx EXCEPT !.current_folder = "wannier90"])

\* the ends of the results step: a raise, and the return after the report
ResultsRaises(read) ==
    /\ pc' = "excepted"
    /\ counts' = read
    /\ UNCHANGED messages

ResultsReturns(read) ==
    /\ pc' = "terminated"
    /\ counts' = read
    /\ messages' = Append(messages, "successfully completed")

\* a comparison of two counts that never finds a difference
CountsDifferNever(computed, reported) == FALSE

\* `number_of_projections != num_proj`, `number_of_electrons != num_elec`
CountsDiffer(computed, reported) == computed # reported

\* results: the outputs are republished, then the two sanity checks compare
\* the counts computed from structure and pseudos with the number of orbitals
\* projwfc reports and the number of electrons scf reports
results ==
    /\ pc = "results"
    /\ \E num_proj \in 1..MaxCount, num_elec \in 1..MaxCount :
        LET number_of_projections == get_number_of_projections
            number_of_electrons == get_number_of_electrons
            projections_read ==
                [NoCounts EXCEPT !.num_proj = Some(num_proj),
                                 !.number_of_projections = Some(number_of_projections)]
            after_projections ==
                IF "projwfc" \in ctx.keys THEN projections_read ELSE NoCounts
            electrons_read ==
                [after_projections EXCEPT !.num_elec = Some(num_elec),
                                          !.number_of_electrons = Some(number_of_electrons)]
        IN  IF ~InInputs("scf")
            THEN ResultsRaises(NoCounts)
            ELSE IF "projwfc" \in ctx.keys /\ CountsDiffer(number_of_projections, num_proj)
            THEN ResultsRaises(projections_read)
            ELSE IF "scf" \notin ctx.keys
            THEN ResultsRaises(after_projections)
            ELSE IF CountsDiffer(number_of_electrons, num_elec)
            THEN ResultsRaises(electrons_read)
            ELSE ResultsReturns(electrons_read)
    /\ UNCHANGED <<inputs, outputs, ctx, jobs, job_inputs, submitted, reached, exit_status>>
    /\ UNCHANGED <<rvars, fvars>>

\* ================================================================
\* QeBaseRestartWorkChain (workflows/base/qebaserestart.py)
\* ================================================================

\* largest num_mpiprocs_per_machine the work chain is launched with
MaxProcs == 4

\* largest max_iterations the work chain is launched with
MaxIterations == 3

_mpi_proc_reduce_factor == 2

\* exit code ERROR_OUTPUT_STDOUT_INCOMPLETE of the work chain
ERROR_OUTPUT_STDOUT_INCOMPLETE == 311

\* exit codes the work chain inherits from BaseRestartWorkChain
ERROR_MAXIMUM_ITERATIONS_EXCEEDED == 401

ERROR_SECOND_CONSECUTIVE_UNHANDLED_FAILURE == 402

\* f'{n}' for the integers the model formats
DecimalString(n) == <<"0", "1", "2", "3", "4", "5", "6", "7", "8", "9">>[n + 1]

\* int(float(token)): a number with a fraction is accepted and truncated
int_of_float(token) ==
    IF \E n \in 0..9 : DecimalString(n) = token
    THEN Some(CHOOSE n \in 0..9 : DecimalString(n) = token)
    ELSE CASE token = "04" -> Some(4)
           [] token = "+2" -> Some(2)
           [] token = " 8 " -> Some(8)
           [] token = "2.5" -> Some(2)
           [] OTHER -> None

\* int(token): the value of an integer literal (leading zeros, a sign and
\* surrounding blanks are accepted), None where int() raises ValueError
int(token) ==
    IF \E n \in 0..9 : DecimalString(n) = token
    THEN Some(CHOOSE n \in 0..9 : DecimalString(n) = token)
    ELSE CASE token = "04" -> Some(4)
           [] token = "+2" -> Some(2)
           [] token = " 8 " -> Some(8)
           [] OTHER -> None

\* the `cmdline` lists of the settings the model launches with
CmdlineSet ==
    { <<>>,
      <<"-nk", "4">>,
      <<"-nk", "1">>,
      <<"-npools", "8">>,
      <<"-in", "aiida.in", "-npools", "04">>,
      <<"-nk", "2", "-npools", "3">>,
      <<"-nk", "x">>,
      <<"-nk", "2.5">>,
      <<"-ndiag", "4", "-nk">>,
      <<"-nk", "-npools", "+2">> }

\* self.ctx.inputs['settings']: absent, or a Dict with or without 'cmdline'
SettingsSet == {None, Some([cmdline |-> None])} \cup {Some([cmdline |-> Some(c)]) : c \in CmdlineSet}

\* the scheduler stderr of a failed calculation: None when there is none,
\* else its lines (split at '\n'), each line a tuple of blank-separated words
StderrSet ==
    { None,
      Some(<< <<>> >>),
      Some(<< <<"Segmentation", "fault">> >>),
      Some(<< <<"slurmstepd:", "error:", "Detected", "1", "oom-kill", "event(s)", "in", "step", "123.0">>,
              <<"srun:", "error:", "task", "0:", "Out", "Of", "Memory">> >>),
      Some(<< <<"warning">>, <<"Detected", "12", "oom-kill", "event(s)", "in", "step">> >>),
      Some(<< <<"Detected", "oom-kill", "event(s)", "in", "step">> >>),
      Some(<< <<"Out", "of", "memory">>, <<>> >>),
      Some(<< <<"node001:", "Out", "Of", "Memory">> >>) }

\* \d+
IsDigits(word) == word \in {DecimalString(n) : n \in 0..9} \cup {"12", "123"}

\* a pattern that accepts the message without the count (\d* for \d+)
regex_search_optional_count(line) ==
    \E i \in 1..(Len(line) - 4) :
        /\ line[i] = "Detected"
        /\ \/ line[i + 1] = "oom-kill"
           \/ IsDigits(line[i + 1]) /\ i + 2 <= Len(line) /\ line[i + 2] = "oom-kill"

\* regex.search(line) for r'Detected \d+ oom-kill event\(s\) in step'
regex_search(line) ==
    \E i \in 1..(Len(line) - 5) :
        /\ line[i] = "Detected"
        /\ IsDigits(line[i + 1])
        /\ line[i + 2] = "oom-kill"
        /\ line[i + 3] = "event(s)"
        /\ line[i + 4] = "in"
        /\ line[i + 5] = "step"

\* 'Out Of Memory' in line
OutOfMemoryIn(line) ==
    \E i \in 1..(Len(line) - 2) :
        line[i] = "Out" /\ line[i + 1] = "Of" /\ line[i + 2] = "Memory"

\* the for/else over the lines: some line breaks the loop
HasOomSignature(lines) ==
    \E i \in 1..Len(lines) : regex_search(lines[i]) \/ OutOfMemoryIn(lines[i])

\* a reduction by one where a division is meant
new_num_mpiprocs_minus_one(current) == current - 1

\* a reduction that divides by 1
new_num_mpiprocs_unchanged(current) == current \div 1

\* current_num_mpiprocs_per_machine // self._mpi_proc_reduce_factor
new_num_mpiprocs_per_machine(current) == current \div _mpi_proc_reduce_factor

\* a floor test that never holds
AtFloorNever(current) == FALSE

\* current_num_mpiprocs_per_machine == 1
AtFloor(current) == current = 1

\* one round of `for key in ('-nk', '-npools')` on the list `cmdline`
HalveKey(cmdline, key) ==
    IF \E i \in 1..Len(cmdline) : cmdline[i] = key
    THEN LET idx == CHOOSE i \in 1..Len(cmdline) :
                        cmdline[i] = key /\ \A j \in 1..(i - 1) : cmdline[j] # key
         IN  IF idx + 1 > Len(cmdline)
             THEN cmdline
             ELSE IF int(cmdline[idx + 1]) = None
             THEN cmdline
             ELSE [cmdline EXCEPT ![idx + 1] = DecimalString(int(cmdline[idx + 1])[1] \div 2)]
    ELSE cmdline

\* the list `cmdline` at the end of the handler: None when the handler has no
\* such list (no settings, no 'cmdline' key), the list itself when it is empty
HalvedCmdline(settings) ==
    IF settings = None
    THEN None
    ELSE IF settings[1].cmdline = None
    THEN None
    ELSE IF settings[1].cmdline[1] = <<>>
    THEN Some(<<>>)
    ELSE Some(HalveKey(HalveKey(settings[1].cmdline[1], "-nk"), "-npools"))

\* a report of the action alone
report_action_only(calc, action) == << [action_taken |-> action] >>

\* report_error_handled(calculation, action): the two messages it reports
report_error_handled(calc, action) ==
    << [failed |-> calc.pk, exit_status |-> calc.exit_status, exit_message |-> calc.exit_message],
       [action_taken |-> action] >>

\* ProcessHandlerReport(do_break, exit_code)
ProcessHandlerReport(do_break, exit_code) == [do_break |-> do_break, exit_code |-> exit_code]

\* handle_output_stdout_incomplete(self, calculation) on self.ctx.inputs = ctx_inputs.
\* Result: the exception raised, the ProcessHandlerReport returned, self.ctx.inputs
\* afterwards, the messages reported, and the handler's local `cmdline`.
\* settings.get_dict() is a copy of the stored Dict: the handler changes the
\* copy, self.ctx.inputs['settings'] stays what it was.
handle_output_stdout_incomplete(ctx_inputs, calc) ==
    LET current_num_mpiprocs_per_machine ==
            IF ctx_inputs.num_mpiprocs_per_machine = None
            THEN 1
            ELSE ctx_inputs.num_mpiprocs_per_machine[1]
        new == new_num_mpiprocs_per_machine(current_num_mpiprocs_per_machine)
    IN  IF calc.scheduler_stderr = None
        THEN [raised |-> "AttributeError", report |-> None, inputs |-> ctx_inputs,
              messages |-> <<>>, outcome |-> "raised", cmdline |-> None]
        ELSE IF ~HasOomSignature(calc.scheduler_stderr[1])
        THEN [raised |-> "none",
              report |-> Some(ProcessHandlerReport(TRUE, ERROR_OUTPUT_STDOUT_INCOMPLETE)),
              inputs |-> ctx_inputs,
              messages |-> report_error_handled(calc, "Unrecoverable incomplete stdout error"),
              outcome |-> "no_oom", cmdline |-> None]
        ELSE IF AtFloor(current_num_mpiprocs_per_machine)
        THEN [raised |-> "none",
              report |-> Some(ProcessHandlerReport(TRUE, ERROR_OUTPUT_STDOUT_INCOMPLETE)),
              inputs |-> ctx_inputs,
              messages |-> report_error_handled(calc, "Unrecoverable out-of-memory error"),
              outcome |-> "floor", cmdline |-> None]
        ELSE [raised |-> "none",
              report |-> Some(ProcessHandlerReport(TRUE, 0)),
              inputs |-> [ctx_inputs EXCEPT !.num_mpiprocs_per_machine = Some(new)],
              messages |-> report_error_handled(calc,
                              <<"Out-of-memory error", current_num_mpiprocs_per_machine, new>>),
              outcome |-> "halved", cmdline |-> HalvedCmdline(ctx_inputs.settings)]

\* a launch of the QeBaseRestartWorkChain with its exposed inputs (no
\* Wannier90WorkChain in the run)
RestartInit ==
    /\ max_iterations \in 1..MaxIterations
    /\ rpc = "setup"
    /\ \E p \in {None} \cup {Some(n) : n \in 1..MaxProcs}, st \in SettingsSet :
        rctx = [exposed |-> [num_mpiprocs_per_machine |-> p, settings |-> st],
                iteration |-> 0]
    /\ calculation = NoCalculation
    /\ handled = NotHandled
    /\ reports = <<>>
    /\ rexit_status = 0
    /\ counts = NoCounts
    /\ messages = <<>>
    /\ inputs = [namespaces |-> {}]
    /\ pc = "idle"
    /\ ctx = [keys |-> {}]
    /\ jobs = [s \in StageSet |-> "none"]
    /\ job_inputs = [s \in StageSet |-> NoInputs]
    /\ outputs = [s \in StageSet |-> None]
    /\ submitted = <<>>
    /\ reached = {}
    /\ exit_status = 0
    /\ fcall = NoCall
    /\ fresult = NoResult

\* setup: BaseRestartWorkChain.setup, then self.ctx.inputs = the exposed inputs
restart_setup ==
    /\ rpc = "setup"
    /\ rctx' = [exposed |-> rctx.exposed, inputs |-> rctx.exposed, iteration |-> 0,
                is_finished |-> FALSE, unhandled_failure |-> FALSE]
    /\ rpc' = "run_process"
    /\ UNCHANGED <<max_iterations, calculation, handled, reports, rexit_status>>
    /\ UNCHANGED <<pvars, fvars, tvars>>

\* BaseRestartWorkChain.should_run_process
should_run_process == ~rctx.is_finished /\ rctx.iteration < max_iterations

\* BaseRestartWorkChain.run_process: submit the process with self.ctx.inputs
run_process ==
    /\ rpc = "run_process"
    /\ should_run_process
    /\ rctx' = [rctx EXCEPT !.iteration = @ + 1]
    /\ calculation' = [pk |-> rctx.iteration + 1, status |-> "running", exit_status |-> 0,
                       exit_message |-> None, scheduler_stderr |-> None, inputs |-> rctx.inputs]
    /\ rpc' = "inspect_process"
    /\ UNCHANGED <<max_iterations, handled, reports, rexit_status>>
    /\ UNCHANGED <<pvars, fvars, tvars>>

\* the calculation ends: finished ok, failed with ERROR_OUTPUT_STDOUT_INCOMPLETE
\* and some scheduler stderr, or failed with another exit code
CalculationFinishes ==
    /\ rpc = "inspect_process"
    /\ calculation.status = "running"
    /\ \/ calculation' = [calculation EXCEPT !.status = "finished_ok"]
       \/ \E stderr \in StderrSet :
            calculation' = [calculation EXCEPT !.status = "finished_failed",
                                !.exit_status = ERROR_OUTPUT_STDOUT_INCOMPLETE,
                                !.exit_message = Some("The stdout output file was incomplete"),
                                !.scheduler_stderr = stderr]
       \/ calculation' = [calculation EXCEPT !.status = "finished_failed", !.exit_status = 1,
                                             !.exit_message = Some("failed")]
    /\ UNCHANGED <<max_iterations, rpc, rctx, handled, reports, rexit_status>>
    /\ UNCHANGED <<pvars, fvars, tvars>>

\* the calculation ends the way an out-of-memory kill ends it: failed with
\* ERROR_OUTPUT_STDOUT_INCOMPLETE, the signature in the scheduler stderr
CalculationFailsOutOfMemory ==
    /\ rpc = "inspect_process"
    /\ calculation.status = "running"
    /\ \E stderr \in {e \in StderrSet \ {None} : HasOomSignature(e[1])} :
            calculation' = [calculation EXCEPT !.status = "finished_failed",
                                !.exit_status = ERROR_OUTPUT_STDOUT_INCOMPLETE,
                                !.exit_message = Some("The stdout output file was incomplete"),
                                !.scheduler_stderr = stderr]
    /\ UNCHANGED <<max_iterations, rpc, rctx, handled, reports, rexit_status>>
    /\ UNCHANGED <<pvars, fvars, tvars>>

\* BaseRestartWorkChain.inspect_process, with the one handler of this class:
\* it is called for a calculation that failed with ERROR_OUTPUT_STDOUT_INCOMPLETE
inspect_process ==
    /\ rpc = "inspect_process"
    /\ calculation.status \in {"finished_ok", "finished_failed"}
    /\ IF calculation.status = "finished_ok"
       THEN /\ rctx' = [rctx EXCEPT !.is_finished = TRUE, !.unhandled_failure = FALSE]
            /\ rpc' = "run_process"
            /\ UNCHANGED <<handled, reports, rexit_status>>
       ELSE IF calculation.exit_status = ERROR_OUTPUT_STDOUT_INCOMPLETE
       THEN LET h == handle_output_stdout_incomplete(rctx.inputs, calculation)
            IN  /\ handled' = [called |-> TRUE, pk |-> calculation.pk, outcome |-> h.outcome,
                               report |-> h.report, cmdline |-> h.cmdline]
                /\ reports' = reports \o h.messages
                /\ IF h.raised # "none"
                   THEN rpc' = "excepted" /\ UNCHANGED <<rctx, rexit_status>>
                   ELSE /\ rctx' = [rctx EXCEPT !.inputs = h.inputs, !.unhandled_failure = FALSE]
                        /\ IF h.report[1].exit_code # 0
                           THEN rpc' = "terminated" /\ rexit_status' = h.report[1].exit_code
                           ELSE rpc' = "run_process" /\ UNCHANGED rexit_status
       ELSE /\ UNCHANGED <<handled, reports>>
            /\ IF rctx.unhandled_failure
               THEN /\ rpc' = "terminated"
                    /\ rexit_status' = ERROR_SECOND_CONSECUTIVE_UNHANDLED_FAILURE
                    /\ UNCHANGED rctx
               ELSE /\ rctx' = [rctx EXCEPT !.unhandled_failure = TRUE]
                    /\ rpc' = "run_process"
                    /\ UNCHANGED rexit_status
    /\ UNCHANGED <<max_iterations, calculation>>
    /\ UNCHANGED <<pvars, fvars, tvars>>

\* BaseRestartWorkChain.results, reached when should_run_process is false
restart_results ==
    /\ rpc = "run_process"
    /\ ~should_run_process
    /\ rpc' = "terminated"
    /\ rexit_status' = IF ~rctx.is_finished /\ rctx.iteration >= max_iterations
                       THEN ERROR_MAXIMUM_ITERATIONS_EXCEEDED
                       ELSE 0
    /\ UNCHANGED <<max_iterations, rctx, calculation, handled, reports>>
    /\ UNCHANGED <<pvars, fvars, tvars>>

\* ================================================================
\* module-level functions of workflows/wannier.py, called on their own
\* ================================================================

\* largest number of sites of a structure
MaxSites == 2

\* the kinds of the sites
Kinds == {"A", "B"}

\* output_parameters dictionaries get_fermi_energy is called with
FermiOutputParameters ==
    [fermi_energy : {None} \cup {Some(e) : e \in (0 - MaxEnergy)..MaxEnergy},
     fermi_energy_units : {None, Some("eV"), Some("ev"), Some("EV"), Some("meV"),
                           Some("Ry"), Some("Hartree")}]

\* entries of the pseudopotential metadata: the pseudo-wavefunction labels in
\* declared order and the semicore labels; a label is a tuple of characters
PseudoMetadataSet ==
    { [pswfcs |-> << <<"1", "S">>, <<"2", "P">> >>, semicores |-> << <<"1", "S">> >>],
      [pswfcs |-> << <<"3", "D">>, <<"4", "S">> >>, semicores |-> <<>>],
      [pswfcs |-> << <<"2", "S">>, <<"3", "S">>, <<"2", "P">> >>,
       semicores |-> << <<"2", "P">>, <<"2", "S">> >>],
      [pswfcs |-> << <<"2", "S">> >>, semicores |-> << <<"1", "S">> >>],
      [pswfcs |-> << <<"4", "F">>, <<"5", "S">> >>, semicores |-> << <<"5", "S">>, <<"5", "S">> >>] }

\* structure.sites as the kind names of the sites, in order
StructureSet == UNION { [1..n -> Kinds] : n \in 1..MaxSites }

\* label2num = {'S': 1, 'P': 3, 'D': 5, 'F': 7}
label2num(letter) ==
    CASE letter = "S" -> 1
      [] letter = "P" -> 3
      [] letter = "D" -> 5
      [] letter = "F" -> 7

\* `x in list`
Contains(list, x) == \E i \in 1..Len(list) : list[i] = x

\* list.remove(x): the list without the first occurrence of x
Remove(list, x) ==
    LET idx == CHOOSE i \in 1..Len(list) : list[i] = x /\ \A j \in 1..(i - 1) : list[j] # x
    IN  [i \in 1..(Len(list) - 1) |-> IF i < idx THEN list[i] ELSE list[i + 1]]

\* a range that starts counting at zero
RangeListZeroBased(a, b) == [i \in 1..(b - a) |-> a + i - 2]

\* list(range(a, b))
RangeList(a, b) == [i \in 1..(b - a) |-> a + i - 1]

\* `for orb in site_pswfcs` from the i-th orbital on; acc holds site_semicores,
\* semicore_list and num_pswfcs
RECURSIVE WalkOrbitals(_, _, _)
WalkOrbitals(site_pswfcs, i, acc) ==
    IF i > Len(site_pswfcs)
    THEN acc
    ELSE LET orb == site_pswfcs[i]
             num_orbs == label2num(orb[Len(orb)])
         IN  WalkOrbitals(site_pswfcs, i + 1,
                 IF Contains(acc.site_semicores, orb)
                 THEN [site_semicores |-> Remove(acc.site_semicores, orb),
                       semicore_list |-> acc.semicore_list \o
                            RangeList(acc.num_pswfcs + 1, acc.num_pswfcs + num_orbs + 1),
                       num_pswfcs |-> acc.num_pswfcs + num_orbs]
                 ELSE [acc EXCEPT !.num_pswfcs = @ + num_orbs])

\* `for site in structure.sites` from the s-th site on. Result: the exception
\* raised ("none" if none), the type of the value returned and, for a list, the list.
RECURSIVE WalkSites(_, _, _, _, _)
WalkSites(structure, pseudo_orbitals, s, semicore_list, num_pswfcs) ==
    IF s > Len(structure)
    THEN [raised |-> "none", type |-> "list", value |-> semicore_list]
    ELSE LET entry == pseudo_orbitals[structure[s]]
             acc == WalkOrbitals(entry.pswfcs, 1,
                        [site_semicores |-> entry.semicores,
                         semicore_list |-> semicore_list, num_pswfcs |-> num_pswfcs])
         IN  IF Len(acc.site_semicores) # 0
             THEN [raised |-> "none", type |-> "ValueError", value |-> <<>>]
             ELSE WalkSites(structure, pseudo_orbitals, s + 1, acc.semicore_list, acc.num_pswfcs)

\* get_semicore_list(structure, pseudo_orbitals)
get_semicore_list(structure, pseudo_orbitals) ==
    WalkSites(structure, pseudo_orbitals, 1, <<>>, 0)

\* largest number of bands of the nscf step and of projections of the pseudos
MaxNbands == 3

\* the members of ElectronicType, SpinType, WannierProjectionType and
\* WannierDisentanglementType
ElectronicTypes == {"METAL", "INSULATOR", "AUTOMATIC"}

SpinTypes == {"NONE", "COLLINEAR", "NON_COLLINEAR", "SPIN_ORBIT"}

ProjectionTypes == {"SCDM", "NUMERIC", "HYDROGEN", "RANDOM"}

DisentanglementTypes ==
    {"AUTO", "NONE", "WINDOW_FIXED", "WINDOW_AUTO", "PROJECTABILITY", "WINDOW_AND_PROJECTABILITY"}

\* a count lowered by one whatever the number of excluded bands
ReducedByOne(n, num_excludes) == n - 1

\* `n -= num_excludes`
Reduced(n, num_excludes) == n - num_excludes

\* a check that lets a zero num_wann through
WrongNumWannNegative(num_wann) == num_wann < 0

\* `if num_wann <= 0: raise ValueError`
WrongNumWann(num_wann) == num_wann <= 0

\* the projections of the HYDROGEN type from the s-th site on: one
\* `kind:letter` per pseudo-wavefunction, the semicore ones left out on request
RECURSIVE HydrogenProjections(_, _, _, _)
HydrogenProjections(structure, pseudo_orbitals, exclude_semicores, s) ==
    IF s > Len(structure)
    THEN <<>>
    ELSE LET entry == pseudo_orbitals[structure[s]]
             kept == SelectSeq(entry.pswfcs,
                        LAMBDA orb : ~(exclude_semicores /\ Contains(entry.semicores, orb)))
         IN  [i \in 1..Len(kept) |-> <<structure[s], kept[i][Len(kept[i])]>>]
                \o HydrogenProjections(structure, pseudo_orbitals, exclude_semicores, s + 1)

\* the disentanglement types that read parameters['conv_tol']
ReadsConvTol ==
    {"WINDOW_FIXED", "WINDOW_AUTO", "PROJECTABILITY", "WINDOW_AND_PROJECTABILITY"}

\* get_wannier90_inputs(code, projection_type=..., ...): the exception raised
\* ("none" if none) and the inputs returned. nbands is the nbnd of the nscf
\* inputs and num_projs the value of get_number_of_projections.
get_wannier90_inputs(a) ==
    LET semicore_list == get_semicore_list(a.structure, a.pseudo_orbitals)
        num_excludes == Len(semicore_list.value)
        excluded == a.exclude_semicores /\ num_excludes # 0
        num_wann_all == IF a.electronic_type = "INSULATOR" THEN a.nbands ELSE a.num_projs
        num_wann == IF excluded THEN Reduced(num_wann_all, num_excludes) ELSE num_wann_all
        num_bands == IF excluded THEN Reduced(a.nbands, num_excludes) ELSE a.nbands
        counted ==
            ("num_wann" :> num_wann)
            @@ (IF excluded THEN "exclude_bands" :> RangeList(1, num_excludes + 1) ELSE <<>>)
            @@ ("num_bands" :> num_bands) @@ ("use_ws_distance" :> TRUE)
        projected ==
            (IF a.projection_type \in {"SCDM", "NUMERIC"}
             THEN "auto_projections" :> TRUE ELSE <<>>) @@ counted
        spun ==
            (IF a.spin_type \in {"NON_COLLINEAR", "SPIN_ORBIT"} THEN "spinors" :> TRUE ELSE <<>>)
            @@ (IF a.plot_wannier_functions THEN "wannier_plot" :> TRUE ELSE <<>>)
            @@ projected
        localised ==
            (IF a.maximal_localisation
             THEN ("num_iter" :> 4000) @@ ("conv_tol" :> <<"1e-7", Len(a.structure)>>)
                    @@ ("conv_window" :> 3)
             ELSE "num_iter" :> 0) @@ spun
        disentangled ==
            (CASE a.disentanglement_type = "NONE" -> "dis_num_iter" :> 0
               [] a.disentanglement_type = "WINDOW_FIXED" ->
                    ("dis_num_iter" :> 4000) @@ ("dis_conv_tol" :> localised["conv_tol"])
                    @@ ("dis_froz_max" :> 2)
               [] a.disentanglement_type = "WINDOW_AUTO" ->
                    ("dis_num_iter" :> 4000) @@ ("dis_conv_tol" :> localised["conv_tol"])
               [] a.disentanglement_type = "PROJECTABILITY" ->
                    ("dis_num_iter" :> 4000) @@ ("dis_conv_tol" :> localised["conv_tol"])
                    @@ ("dis_proj_min" :> "0.95")
               [] a.disentanglement_type = "WINDOW_AND_PROJECTABILITY" ->
                    ("dis_num_iter" :> 4000) @@ ("dis_conv_tol" :> localised["conv_tol"])
                    @@ ("dis_proj_min" :> "0.95") @@ ("dis_froz_max" :> 2)) @@ localised
        parameters ==
            ("mp_grid" :> "mesh")
            @@ (IF a.retrieve_hamiltonian
                THEN ("write_tb" :> TRUE) @@ ("write_hr" :> TRUE) @@ ("write_xyz" :> TRUE)
                ELSE <<>>) @@ disentangled
        retrieve_list ==
            IF a.retrieve_matrices THEN <<"*.win", "chk", "eig", "amn", "mmn", "spn">>
            ELSE <<"*.win">>
        settings ==
            (IF a.projection_type = "RANDOM" THEN "random_projections" :> TRUE ELSE <<>>)
            @@ (IF a.retrieve_hamiltonian THEN "additional_retrieve_list" :> retrieve_list
                ELSE <<>>)
        Raise(type) == [raised |-> type, parameters |-> <<>>, settings |-> <<>>,
                        projections |-> None]
    IN  IF a.exclude_semicores /\ semicore_list.type # "list" THEN Raise("TypeError")
        ELSE IF WrongNumWann(num_wann) THEN Raise("ValueError")
        ELSE IF a.projection_type \notin ProjectionTypes THEN Raise("ValueError")
        ELSE IF a.disentanglement_type \in ReadsConvTol /\ ~a.maximal_localisation
             THEN Raise("KeyError")
        ELSE IF a.disentanglement_type \notin ReadsConvTol \cup {"NONE"} THEN Raise("ValueError")
        ELSE IF a.retrieve_matrices /\ ~a.retrieve_hamiltonian THEN Raise("KeyError")
        ELSE [raised |-> "none", parameters |-> parameters, settings |-> settings,
              projections |->
                  IF a.projection_type = "HYDROGEN"
                  THEN Some(HydrogenProjections(a.structure, a.pseudo_orbitals,
                                                a.exclude_semicores, 1))
                  ELSE None]

\* get_pw2wannier90_inputs(code, projection_type=..., exclude_pswfcs=...):
\* the inputpp dictionary
get_pw2wannier90_inputs(a, exclude_pswfcs) ==
    (CASE a.projection_type = "SCDM" ->
            ("scdm_proj" :> TRUE)
            @@ ("scdm_entanglement" :>
                    IF a.electronic_type = "INSULATOR" THEN "isolated" ELSE "erfc")
       [] a.projection_type = "NUMERIC" ->
            ("use_pao" :> TRUE) @@ ("ortho_paos" :> TRUE)
            @@ (IF exclude_pswfcs # None THEN "exclude_paos" :> exclude_pswfcs[1] ELSE <<>>)
       [] OTHER -> <<>>)
    @@ ("write_mmn" :> TRUE) @@ ("write_amn" :> TRUE)

\* argument checks that stop after the codes
check_codes_only(a) ==
    IF ~a.codes.is_dict THEN "TypeError"
    ELSE IF ~({"pw", "pw2wannier90", "wannier90"} \subseteq a.codes.keys) THEN "ValueError"
    ELSE "none"

\* the argument checks of get_builder_from_protocol: the exception raised, "none" if none
check_arguments(a) ==
    IF ~a.codes.is_dict THEN "TypeError"
    ELSE IF ~({"pw", "pw2wannier90", "wannier90"} \subseteq a.codes.keys) THEN "ValueError"
    ELSE IF a.electronic_type \notin ElectronicTypes THEN "TypeError"
    ELSE IF a.spin_type \notin SpinTypes THEN "TypeError"
    ELSE IF a.electronic_type \notin {"METAL", "INSULATOR"} THEN "NotImplementedError"
    ELSE IF a.spin_type \notin {"NONE"} THEN "NotImplementedError"
    ELSE IF a.initial_magnetic_moments # None /\ a.spin_type # "COLLINEAR" THEN "ValueError"
    ELSE "none"

\* a projwfc switch that follows the protocol alone
builder_run_projwfc_protocol_only(a) == a.protocol.projwfc

\* run_projwfc of get_builder_from_protocol
builder_run_projwfc(a) ==
    \/ a.protocol.projwfc
    \/ a.projection_type = "SCDM"
    \/ a.disentanglement_type = "WINDOW_AUTO"

\* a resolution of AUTO that does not look at the electronic type
disentanglement_type_by_projection(a) ==
    IF a.disentanglement_type # "AUTO"
    THEN [raised |-> "none", type |-> a.disentanglement_type]
    ELSE IF a.projection_type \in {"HYDROGEN", "RANDOM"}
         THEN [raised |-> "none", type |-> "WINDOW_FIXED"]
    ELSE IF a.projection_type = "NUMERIC"
         THEN [raised |-> "none", type |-> "WINDOW_AND_PROJECTABILITY"]
    ELSE [raised |-> "none", type |-> "NONE"]

\* the disentanglement type get_builder_from_protocol hands to
\* get_wannier90_inputs, AUTO resolved
disentanglement_type(a) ==
    IF a.disentanglement_type # "AUTO"
    THEN [raised |-> "none", type |-> a.disentanglement_type]
    ELSE IF a.electronic_type = "INSULATOR"
         THEN [raised |-> "none", type |-> "NONE"]
    ELSE IF a.projection_type \in {"HYDROGEN", "RANDOM"}
         THEN [raised |-> "none", type |-> "WINDOW_FIXED"]
    ELSE IF a.projection_type = "NUMERIC"
         THEN [raised |-> "none", type |-> "WINDOW_AND_PROJECTABILITY"]
    ELSE IF a.projection_type = "SCDM"
         THEN [raised |-> "none", type |-> "NONE"]
    ELSE [raised |-> "ValueError", type |-> "AUTO"]

\* the builder of a call that raised: the exception and the namespaces
\* assigned before it
NoBuilder(type, namespaces) ==
    [raised |-> type, namespaces |-> namespaces, pw2wannier90 |-> <<>>,
     wannier90 |-> [parameters |-> <<>>, settings |-> <<>>, projections |-> None],
     relative_dis_windows |-> FALSE, clean_workdir |-> FALSE, summary |-> <<>>]

\* get_builder_from_protocol(codes, structure, ...): the exception raised ("none"
\* if none), the namespaces assigned on the builder and, when it returns, the
\* builder and the summary. The protocol holds the switches get_protocol_inputs
\* returns, their defaults applied; the scf and nscf switches are on.
get_builder_from_protocol(a) ==
    LET rejected == check_arguments(a)
        before_projwfc == (IF a.protocol.relax THEN {"relax"} ELSE {}) \cup {"scf", "nscf"}
        with_projwfc == before_projwfc \cup (IF builder_run_projwfc(a) THEN {"projwfc"} ELSE {})
        semicore_list == get_semicore_list(a.structure, a.pseudo_orbitals)
        exclude_pswfcs == IF a.exclude_semicores THEN Some(semicore_list.value) ELSE None
        with_pw2wannier90 ==
            with_projwfc \cup (IF a.protocol.pw2wannier90 THEN {"pw2wannier90"} ELSE {})
        resolved == disentanglement_type(a)
        wannier_inputs ==
            get_wannier90_inputs([a EXCEPT !.disentanglement_type = resolved.type])
    IN  IF rejected # "none" THEN NoBuilder(rejected, {})
        ELSE IF builder_run_projwfc(a) /\ "projwfc" \notin a.codes.keys
             THEN NoBuilder("KeyError", before_projwfc)
        ELSE IF /\ a.protocol.pw2wannier90
                /\ a.exclude_semicores
                /\ a.projection_type = "NUMERIC"
                /\ semicore_list.type # "list"
             THEN NoBuilder("TypeError", with_projwfc)
        ELSE IF ~a.protocol.wannier90 THEN NoBuilder("KeyError", with_pw2wannier90)
        ELSE IF resolved.raised # "none" THEN NoBuilder(resolved.raised, with_pw2wannier90)
        ELSE IF wannier_inputs.raised # "none"
             THEN NoBuilder(wannier_inputs.raised, with_pw2wannier90)
        ELSE IF "exclude_bands" \notin DOMAIN wannier_inputs.parameters
             THEN NoBuilder("KeyError", with_pw2wannier90 \cup {"wannier90"})
        ELSE [raised |-> "none",
              namespaces |-> with_pw2wannier90 \cup {"wannier90"},
              pw2wannier90 |-> IF a.protocol.pw2wannier90
                               THEN get_pw2wannier90_inputs(a, exclude_pswfcs) ELSE <<>>,
              wannier90 |-> [parameters |-> wannier_inputs.parameters,
                             settings |-> wannier_inputs.settings,
                             projections |-> wannier_inputs.projections],
              relative_dis_windows |-> TRUE,
              clean_workdir |-> a.protocol.clean_workdir,
              summary |-> [ElectronicType |-> a.electronic_type,
                           SpinType |-> a.spin_type,
                           WannierProjectionType |-> a.projection_type,
                           WannierDisentanglementType |-> resolved.type,
                           num_bands |-> wannier_inputs.parameters["num_bands"],
                           num_wann |-> wannier_inputs.parameters["num_wann"],
                           exclude_bands |-> wannier_inputs.parameters["exclude_bands"],
                           mp_grid |-> wannier_inputs.parameters["mp_grid"]]]

\* the arguments of a call with the defaults of the signature, for a one-site
\* structure whose pseudo has one semicore orbital
DefaultArguments ==
    [codes |-> [is_dict |-> TRUE, keys |-> {"pw", "pw2wannier90", "wannier90", "projwfc"}],
     structure |-> <<"A">>,
     pseudo_orbitals |->
        [k \in Kinds |-> [pswfcs |-> << <<"1", "S">>, <<"2", "P">> >>,
                          semicores |-> << <<"1", "S">> >>]],
     nbands |-> MaxNbands,
     num_projs |-> MaxNbands,
     protocol |-> [relax |-> FALSE, projwfc |-> FALSE, pw2wannier90 |-> TRUE,
                   wannier90 |-> TRUE, clean_workdir |-> FALSE],
     projection_type |-> "SCDM",
     disentanglement_type |-> "AUTO",
     maximal_localisation |-> TRUE,
     exclude_semicores |-> TRUE,
     plot_wannier_functions |-> FALSE,
     retrieve_hamiltonian |-> FALSE,
     retrieve_matrices |-> FALSE,
     electronic_type |-> "METAL",
     spin_type |-> "NONE",
     initial_magnetic_moments |-> None]

\* the codes arguments: not a dictionary, a required key missing, the required
\* keys, the required keys and projwfc
CodesSet ==
    { [is_dict |-> FALSE, keys |-> {}],
      [is_dict |-> TRUE, keys |-> {"pw", "pw2wannier90"}],
      [is_dict |-> TRUE, keys |-> {"pw", "pw2wannier90", "wannier90"}],
      [is_dict |-> TRUE, keys |-> {"pw", "pw2wannier90", "wannier90", "projwfc"}] }

\* the arguments of the calls: the defaults varied in the checked arguments,
\* in the types, in the structure and the band counts, and in the protocol and
\* the output switches
ArgumentsSet ==
    { [DefaultArguments EXCEPT !.codes = c, !.electronic_type = e, !.spin_type = sp,
                               !.initial_magnetic_moments = m] :
        c \in CodesSet, e \in ElectronicTypes \cup {"metal"},
        sp \in SpinTypes \cup {"none"}, m \in {None, Some("moments")} }
    \cup
    { [DefaultArguments EXCEPT !.electronic_type = e, !.projection_type = p,
                               !.disentanglement_type = d, !.maximal_localisation = ml,
                               !.protocol.projwfc = pw, !.codes = c,
                               !.exclude_semicores = ex] :
        e \in {"METAL", "INSULATOR"}, p \in ProjectionTypes, d \in DisentanglementTypes,
        ml \in BOOLEAN, pw \in BOOLEAN, ex \in BOOLEAN,
        c \in {k \in CodesSet : "wannier90" \in k.keys} }
    \cup
    { [DefaultArguments EXCEPT !.structure = st, !.pseudo_orbitals = po,
                               !.electronic_type = e, !.exclude_semicores = ex,
                               !.disentanglement_type = d,
                               !.nbands = nb, !.num_projs = np] :
        st \in StructureSet, po \in [Kinds -> PseudoMetadataSet],
        e \in {"METAL", "INSULATOR"}, ex \in BOOLEAN, d \in {"AUTO", "NONE"},
        nb \in 1..MaxNbands, np \in 1..MaxNbands }
    \cup
    { [DefaultArguments EXCEPT !.protocol = pr, !.plot_wannier_functions = pl,
                               !.retrieve_hamiltonian = rh, !.retrieve_matrices = rm] :
        pr \in [relax : BOOLEAN, projwfc : BOOLEAN, pw2wannier90 : BOOLEAN,
                wannier90 : BOOLEAN, clean_workdir : BOOLEAN],
        pl \in BOOLEAN, rh \in BOOLEAN, rm \in BOOLEAN }

\* largest number of nodes in self.node.called_descendants
MaxDescendants == 3

\* what `called_descendant.outputs.remote_folder._clean()` does on a calculation
\* job: it cleans the folder, _clean() raises IOError, OSError or KeyError, or
\* the node has no remote_folder output
ReleaseOutcomes == {"cleaned", "IOError", "OSError", "KeyError", "no_remote_folder"}

\* the nodes called_descendants can hold: sub work chains and calculation jobs
DescendantSet ==
    {[node_type |-> "WorkChainNode", release |-> "cleaned"]}
    \cup {[node_type |-> "CalcJobNode", release |-> o] : o \in ReleaseOutcomes}

\* the exception the release of a calculation job raises, "none" if it cleans;
\* the attribute access `outputs.remote_folder` on a node without that output
\* raises NotExistentAttributeError, an AttributeError
ReleaseRaises(node) ==
    CASE node.release = "cleaned" -> "none"
      [] node.release = "no_remote_folder" -> "NotExistentAttributeError"
      [] OTHER -> node.release

\* `except (IOError, OSError, KeyError): pass`
Caught(exception) == exception \in {"IOError", "OSError", "KeyError"}

\* `for called_descendant in self.node.called_descendants` from the i-th node
\* on; the pk of a node is its position. acc holds the pks whose release was
\* attempted, cleaned_calcs and the exception that left the loop.
RECURSIVE CleanDescendants(_, _, _)
CleanDescendants(called_descendants, i, acc) ==
    IF i > Len(called_descendants)
    THEN acc
    ELSE LET called_descendant == called_descendants[i]
             exception == ReleaseRaises(called_descendant)
         IN  IF called_descendant.node_type # "CalcJobNode"
             THEN CleanDescendants(called_descendants, i + 1, acc)
             ELSE IF exception = "none"
             THEN CleanDescendants(called_descendants, i + 1,
                      [acc EXCEPT !.attempted = Append(@, i),
                                  !.cleaned_calcs = Append(@, i)])
             ELSE IF Caught(exception)
             THEN CleanDescendants(called_descendants, i + 1,
                      [acc EXCEPT !.attempted = Append(@, i)])
             ELSE [acc EXCEPT !.attempted = Append(@, i), !.raised = exception]

\* on_terminated(self): the exception raised, the calculation jobs whose
\* release was attempted, cleaned_calcs and the messages reported
on_terminated(a) ==
    IF ~a.inputs.clean_workdir
    THEN [raised |-> "none", attempted |-> <<>>, cleaned_calcs |-> <<>>,
          reported |-> << <<"remote folders will not be cleaned">> >>]
    ELSE LET acc == CleanDescendants(a.called_descendants, 1,
                        [raised |-> "none", attempted |-> <<>>, cleaned_calcs |-> <<>>])
         IN  [raised |-> acc.raised, attempted |-> acc.attempted,
              cleaned_calcs |-> acc.cleaned_calcs,
              reported |-> IF acc.raised = "none" /\ acc.cleaned_calcs # <<>>
                           THEN << <<"cleaned remote folders of calculations", acc.cleaned_calcs>> >>
                           ELSE <<>>]

\* a call of one of the functions, not yet executed
FunctionInit ==
    /\ fcall \in {[function |-> "get_fermi_energy", output_parameters |-> o] :
                    o \in FermiOutputParameters}
                 \cup
                 {[function |-> "get_semicore_list", structure |-> st, pseudo_orbitals |-> po] :
                    st \in StructureSet, po \in [Kinds -> PseudoMetadataSet]}
                 \cup
                 {("function" :> f) @@ a :
                    f \in {"get_wannier90_inputs", "get_builder_from_protocol"},
                    a \in ArgumentsSet}
                 \cup
                 {[function |-> "on_terminated", inputs |-> [clean_workdir |-> c],
                   called_descendants |-> d] :
                    c \in BOOLEAN,
                    d \in UNION {[1..n -> DescendantSet] : n \in 0..MaxDescendants}}
    /\ fresult = NoResult
    /\ inputs = [namespaces |-> {}]
    /\ pc = "idle"
    /\ ctx = [keys |-> {}]
    /\ jobs = [s \in StageSet |-> "none"]
    /\ job_inputs = [s \in StageSet |-> NoInputs]
    /\ outputs = [s \in StageSet |-> None]
    /\ submitted = <<>>
    /\ reached = {}
    /\ exit_status = 0
    /\ max_iterations = 0
    /\ rpc = "idle"
    /\ rctx = [iteration |-> 0]
    /\ calculation = NoCalculation
    /\ handled = NotHandled
    /\ reports = <<>>
    /\ rexit_status = 0
    /\ counts = NoCounts
    /\ messages = <<>>

call_get_fermi_energy ==
    /\ fcall.function = "get_fermi_energy"
    /\ ~fresult.done
    /\ fresult' = [done |-> TRUE, raised |-> "none",
                   value |-> get_fermi_energy(fcall.output_parameters)]
    /\ UNCHANGED <<fcall, pvars, rvars, tvars>>

call_get_semicore_list ==
    /\ fcall.function = "get_semicore_list"
    /\ ~fresult.done
    /\ fresult' = [done |-> TRUE] @@ get_semicore_list(fcall.structure, fcall.pseudo_orbitals)
    /\ UNCHANGED <<fcall, pvars, rvars, tvars>>

call_get_wannier90_inputs ==
    /\ fcall.function = "get_wannier90_inputs"
    /\ ~fresult.done
    /\ fresult' = [done |-> TRUE] @@ get_wannier90_inputs(fcall)
    /\ UNCHANGED <<fcall, pvars, rvars, tvars>>

call_get_builder_from_protocol ==
    /\ fcall.function = "get_builder_from_protocol"
    /\ ~fresult.done
    /\ fresult' = [done |-> TRUE] @@ get_builder_from_protocol(fcall)
    /\ UNCHANGED <<fcall, pvars, rvars, tvars>>

call_on_terminated ==
    /\ fcall.function = "on_terminated"
    /\ ~fresult.done
    /\ fresult' = [done |-> TRUE] @@ on_terminated(fcall)
    /\ UNCHANGED <<fcall, pvars, rvars, tvars>>

\* ================================================================
\* specifications
\* ================================================================

Next ==
    \/ setup
    \/ validate_parameters
    \/ run_relax
    \/ skip_relax
    \/ inspect_relax
    \/ run_scf
    \/ skip_scf
    \/ inspect_scf
    \/ run_nscf
    \/ skip_nscf
    \/ inspect_nscf
    \/ run_projwfc
    \/ skip_projwfc
    \/ inspect_projwfc
    \/ run_wannier90_pp
    \/ inspect_wannier90_pp
    \/ run_pw2wannier90
    \/ inspect_pw2wannier90
    \/ run_wannier90
    \/ inspect_wannier90
    \/ results
    \/ JobFinishes

\* the Wannier90WorkChain
Spec == Init /\ [][Next]_vars

RestartNext ==
    \/ restart_setup
    \/ run_process
    \/ CalculationFinishes
    \/ inspect_process
    \/ restart_results

\* the QeBaseRestartWorkChain
SpecRestart == RestartInit /\ [][RestartNext]_vars

OutOfMemoryNext ==
    \/ restart_setup
    \/ run_process
    \/ CalculationFailsOutOfMemory
    \/ inspect_process
    \/ restart_results

\* the QeBaseRestartWorkChain when every calculation it submits is killed for
\* lack of memory; the engine runs every step that is enabled, and every
\* submitted calculation ends
SpecOutOfMemory == RestartInit /\ [][OutOfMemoryNext]_vars /\ WF_vars(OutOfMemoryNext)

FunctionsNext ==
    \/ call_get_fermi_energy
    \/ call_get_semicore_list
    \/ call_get_wannier90_inputs
    \/ call_get_builder_from_protocol
    \/ call_on_terminated

\* the module-level functions
SpecFunctions == FunctionInit /\ [][FunctionsNext]_vars

\* ---------------------------------------------------------------- claims: pipeline

Range(seq) == {seq[i] : i \in 1..Len(seq)}

\* C1: jobs are submitted in the fixed stage order, none twice, and a job is
\* submitted only when every job submitted before it has finished ok.
C1_SubmissionOrder ==
    /\ \A i, j \in 1..Len(submitted) :
        i < j => StageIndex(submitted[i]) < StageIndex(submitted[j])
    /\ \A i \in 1..(Len(submitted) - 1) : jobs[submitted[i]] = "finished_ok"

C1_Witness ==
    /\ submitted = Stages
    /\ jobs["wannier90"] = "finished_ok"

\* C2: a failed job of a stage ends the work chain with that stage's own exit
\* code (410, 420, 430, 440, 450, 460, 470 in stage order) and no job of a
\* later stage is submitted.
C2_StageFailureCode ==
    \A s \in StageSet :
        jobs[s] = "finished_failed" =>
            /\ submitted[Len(submitted)] = s
            /\ pc \in {"inspect_" \o s, "terminated"}
            /\ pc = "terminated" =>
                exit_status = <<410, 420, 430, 440, 450, 460, 470>>[StageIndex(s)]

C2_Witness ==
    /\ jobs["nscf"] = "finished_failed"
    /\ pc = "terminated"
    /\ exit_status = 430

\* C3: once validation has run, the work chain has stopped with 401 and has
\* submitted nothing if bands_plot is requested without kpoint_path; in every
\* other case it has not stopped there.
C3_ValidationGate ==
    pc \notin {"setup", "validate_parameters"} =>
        IF inputs.parameters.bands_plot = Some(TRUE) /\ inputs.kpoint_path = None
        THEN /\ pc = "terminated"
             /\ exit_status = 401
             /\ submitted = <<>>
             /\ \A s \in StageSet : jobs[s] = "none"
        ELSE /\ exit_status # 401
             /\ pc \in {"terminated", "excepted"} => reached # {}

C3_Witness ==
    /\ inputs.parameters.bands_plot = Some(TRUE)
    /\ inputs.kpoint_path = None
    /\ pc = "terminated"
    /\ exit_status = 401

\* C4: of the stages the outline has reached, a skippable one has submitted a
\* job exactly if its namespace was supplied, and wannier90_pp, pw2wannier90
\* and wannier90 have each submitted a job.
C4_StagesSubmitted ==
    \A s \in reached :
        IF s \in Skippable
        THEN s \in Range(submitted) <=> s \in inputs.namespaces
        ELSE s \in Range(submitted)

\* C5: current_structure and current_folder hold a stage's output only if the
\* job of that stage finished ok, and an inspect step that sees a failed job
\* changes neither.
C5_ContextFromFinishedOk ==
    /\ [](/\ ctx.current_structure = "relaxed" => jobs["relax"] = "finished_ok"
          /\ ctx.current_folder \in StageSet => jobs[ctx.current_folder] = "finished_ok")
    /\ [][(\E s \in StageSet : pc = "inspect_" \o s /\ jobs[s] = "finished_failed")
            => /\ ctx'.current_structure = ctx.current_structure
               /\ ctx'.current_folder = ctx.current_folder]_pvars

C5_Witness ==
    /\ jobs["pw2wannier90"] = "finished_failed"
    /\ pc = "terminated"
    /\ ctx.current_folder = "nscf"
    /\ ctx.current_structure = "relaxed"

\* the stages that build and use the Wannier90 bundle
WannierStages == {"wannier90_pp", "pw2wannier90", "wannier90"}

\* relative_dis_windows is set and no Fermi energy can be obtained: scf did
\* not run, or its output has no Fermi energy in eV
InvalidRelativeWindows ==
    /\ inputs.relative_dis_windows
    /\ \/ "scf" \notin ctx.keys
       \/ /\ outputs["scf"] # <<>>
          /\ \/ outputs["scf"][1].output_parameters.fermi_energy_units # <<"eV">>
             \/ outputs["scf"][1].output_parameters.fermi_energy = <<>>

\* C13: the step that builds the wannier90_pp bundle for an invalid
\* relative-window request ends the work chain with exit code 402.
C13_RelativeWindowsExitCode ==
    [][(pc = "run_wannier90_pp" /\ InvalidRelativeWindows /\ pc' # pc) =>
        (pc' = "terminated" /\ exit_status' = ERROR_INVALID_INPUT_RELATIVE_DIS_WINDOWS)]_vars

\* C14: with relative_dis_windows set and an scf output whose Fermi-energy unit
\* is not exactly 'eV' (or is missing), the step that builds the wannier90_pp
\* bundle raises, and no wannier90_pp, pw2wannier90 or wannier90 job is submitted.
C14_NoSubmitWithoutFermiUnit ==
    (/\ inputs.relative_dis_windows
     /\ outputs["scf"] # <<>>
     /\ outputs["scf"][1].output_parameters.fermi_energy_units # <<"eV">>) =>
        /\ \A s \in WannierStages : jobs[s] = "none" /\ s \notin Range(submitted)
        /\ "wannier90_pp" \in reached => pc = "excepted"

C14_Witness ==
    /\ inputs.relative_dis_windows
    /\ inputs.parameters.dis_froz_max = <<2>>
    /\ outputs["scf"] = << [output_parameters |->
                              [fermi_energy |-> <<1>>, fermi_energy_units |-> <<"Ry">>]] >>
    /\ jobs["projwfc"] = "finished_ok"
    /\ "wannier90_pp" \in reached
    /\ pc = "excepted"

LatestKmeshTol ==
    LET called == outputs["wannier90_pp"][1].called
    IN  (CHOOSE c \in called : \A d \in called : d.pk <= c.pk).kmesh_tol

\* C17 as stated: the pw2wannier90 job carries the kmesh_tol of the wannier90_pp
\* sub-job with the largest pk.
C17_MatrixGenerationInherits ==
    jobs["pw2wannier90"] # "none" =>
        /\ "kmesh_tol" \in DOMAIN job_inputs["pw2wannier90"]
        /\ job_inputs["pw2wannier90"].kmesh_tol = LatestKmeshTol

\* C17: the pw2wannier90 job takes from the wannier90_pp stage the nnkp_file
\* output of its work chain and nothing of a sub-job; it is the wannier90 job
\* that carries the kmesh_tol of the wannier90_pp sub-job with the largest pk.
C17_LocalizationInherits ==
    /\ jobs["pw2wannier90"] # "none" =>
        /\ DOMAIN job_inputs["pw2wannier90"] =
              {"launched", "parent_folder", "nnkp_file", "inputpp", "fitted"}
        /\ job_inputs["pw2wannier90"].nnkp_file = outputs["wannier90_pp"][1].nnkp_file
        /\ job_inputs["pw2wannier90"].parent_folder \in {"scf", "nscf"}
    /\ jobs["wannier90"] # "none" => job_inputs["wannier90"].kmesh_tol = LatestKmeshTol

C17_Witness ==
    /\ jobs["pw2wannier90"] = "finished_ok"
    /\ job_inputs["pw2wannier90"].parent_folder = "nscf"
    /\ jobs["wannier90"] = "running"
    /\ outputs["wannier90_pp"][1].called =
          {[pk |-> 1, kmesh_tol |-> 1], [pk |-> 2, kmesh_tol |-> 2]}
    /\ job_inputs["wannier90"].kmesh_tol = 2

\* C18: the wannier90_pp job is submitted with postproc_setup true, the
\* wannier90 job with postproc_setup false; structure, parameters and kmesh_tol
\* of the wannier90 job are those of the wannier90_pp sub-job with the largest
\* pk (the parameters not those declared in the inputs), and a key that
\* sub-job does not define keeps the value set before the copy.
C18_PostprocFlagAndPrecedence ==
    /\ jobs["wannier90_pp"] # "none" => job_inputs["wannier90_pp"].postproc_setup = TRUE
    /\ jobs["wannier90"] # "none" =>
        /\ job_inputs["wannier90"].postproc_setup = FALSE
        /\ job_inputs["wannier90"].parameters = job_inputs["wannier90_pp"].parameters
        /\ job_inputs["wannier90"].structure = job_inputs["wannier90_pp"].structure
        /\ job_inputs["wannier90"].kmesh_tol = LatestKmeshTol
        /\ job_inputs["wannier90"].remote_input_folder = "pw2wannier90"

C18_Witness ==
    /\ jobs["wannier90"] = "running"
    /\ job_inputs["wannier90"].postproc_setup = FALSE
    /\ job_inputs["wannier90_pp"].postproc_setup = TRUE
    /\ inputs.parameters.dis_froz_max = <<3>>
    /\ job_inputs["wannier90"].parameters.dis_froz_max = <<1>>
    /\ Cardinality(outputs["wannier90_pp"][1].called) = 2

\* C19 as stated: the fit is made exactly when the entanglement scheme is
\* 'erfc' and scdm_mu or scdm_sigma is unset.
C19_FitWhenErfcUnset ==
    jobs["pw2wannier90"] # "none" =>
        (job_inputs["pw2wannier90"].fitted <=>
            /\ inputs.inputpp.scdm_entanglement = <<"erfc">>
            /\ (inputs.inputpp.scdm_mu = <<>> \/ inputs.inputpp.scdm_sigma = <<>>))

\* C19: the fit is made exactly when scdm_proj is true, the entanglement scheme
\* is 'erfc' and scdm_mu or scdm_sigma is unset; a pw2wannier90 job built with
\* the fit is submitted only when projwfc finished ok.
C19_FitWhenScdmErfcUnset ==
    jobs["pw2wannier90"] # "none" =>
        /\ job_inputs["pw2wannier90"].fitted <=>
            /\ inputs.inputpp.scdm_proj
            /\ inputs.inputpp.scdm_entanglement = <<"erfc">>
            /\ (inputs.inputpp.scdm_mu = <<>> \/ inputs.inputpp.scdm_sigma = <<>>)
        /\ job_inputs["pw2wannier90"].fitted => jobs["projwfc"] = "finished_ok"

C19_Witness ==
    /\ jobs["pw2wannier90"] = "running"
    /\ job_inputs["pw2wannier90"].fitted
    /\ inputs.inputpp.scdm_mu = <<1>>
    /\ inputs.inputpp.scdm_sigma = <<>>
    /\ job_inputs["pw2wannier90"].inputpp.scdm_sigma # <<>>

\* the exit codes of the failed stages
StageFailureCodes == {ERROR_SUB_PROCESS_FAILED(stage) : stage \in StageSet}

\* C28: when the results step finds that the computed number of projections
\* differs from the number of orbitals projwfc reported (projwfc having run), or
\* that the computed number of electrons differs from the number scf reported,
\* the work chain ends excepted: without an exit code of a failed stage and
\* without the report of a successful completion.
C28_SanityChecksFatal ==
    [][(/\ pc = "results"
        /\ \/ (counts'.num_proj # None /\ counts'.num_proj # counts'.number_of_projections)
           \/ (counts'.num_elec # None /\ counts'.num_elec # counts'.number_of_electrons))
          => /\ pc' = "excepted"
             /\ exit_status' \notin StageFailureCodes
             /\ exit_status' = exit_status
             /\ messages' = messages]_vars

C28_Witness ==
    /\ pc = "excepted"
    /\ "projwfc" \in ctx.keys
    /\ counts.num_proj = Some(1)
    /\ counts.number_of_projections = Some(1)
    /\ counts.num_elec = Some(2)
    /\ counts.number_of_electrons = Some(1)
    /\ messages = <<>>

\* the stages whose inspect step stores the remote folder of their job
FolderStages == {"scf", "nscf", "pw2wannier90", "wannier90"}

\* the folder a launched job was given as its parent directory, None if it was
\* given none
ParentFolder(stage) ==
    IF stage \in {"nscf", "projwfc", "pw2wannier90"}
    THEN Some(job_inputs[stage].parent_folder)
    ELSE IF stage = "wannier90"
    THEN Some(job_inputs[stage].remote_input_folder)
    ELSE None

\* the stages submitted before the i-th submission whose job finished ok
CompletedBefore(i) == {j \in 1..(i - 1) : jobs[submitted[j]] = "finished_ok"}

\* C30 as stated: after the job of any stage finishes ok the inspect step
\* replaces current_folder by the folder of that job, and every job launched
\* with a parent directory has the folder of the most recently completed job.
C30_FolderOfLatestJob ==
    /\ [][\A s \in StageSet :
            (pc = "inspect_" \o s /\ jobs[s] = "finished_ok") => ctx'.current_folder = s]_vars
    /\ [](\A i \in 1..Len(submitted) :
            ParentFolder(submitted[i]) # None =>
                \E j \in CompletedBefore(i) :
                    /\ \A k \in CompletedBefore(i) : k <= j
                    /\ ParentFolder(submitted[i]) = Some(submitted[j]))

\* C30, amended: the inspect steps of scf, nscf, pw2wannier90 and wannier90
\* replace current_folder by the folder of their job when it finished ok, those
\* of relax, projwfc and wannier90_pp leave it as it is; every job launched with
\* a parent directory has the folder of the most recently completed job among
\* scf, nscf, pw2wannier90 and wannier90.
C30_FolderOfLatestFolderStage ==
    /\ [][\A s \in StageSet :
            (pc = "inspect_" \o s /\ jobs[s] = "finished_ok") =>
                ctx'.current_folder = IF s \in FolderStages THEN s ELSE ctx.current_folder]_vars
    /\ [](\A i \in 1..Len(submitted) :
            ParentFolder(submitted[i]) # None =>
                LET before == {j \in CompletedBefore(i) : submitted[j] \in FolderStages}
                IN  \E j \in before :
                        /\ \A k \in before : k <= j
                        /\ ParentFolder(submitted[i]) = Some(submitted[j]))

C30_Witness ==
    /\ jobs["projwfc"] = "finished_ok"
    /\ jobs["wannier90_pp"] = "finished_ok"
    /\ jobs["pw2wannier90"] = "finished_ok"
    /\ job_inputs["pw2wannier90"].parent_folder = "nscf"
    /\ jobs["wannier90"] = "running"
    /\ job_inputs["wannier90"].remote_input_folder = "pw2wannier90"

\* C31: with auto_froz_max False the dis_froz_max of the inputs is not
\* replaced by the energy of the projectability threshold: the bundle of
\* wannier90_pp has no dis_froz_max when the inputs have none, and otherwise the
\* declared one, shifted if asked for and capped by the bands.
C31_FrozMaxKeptWithoutAuto ==
    (jobs["wannier90_pp"] # "none" /\ ~inputs.auto_froz_max) =>
        LET declared == inputs.parameters.dis_froz_max
            fermi == outputs["scf"][1].output_parameters.fermi_energy
            shifted == IF inputs.relative_dis_windows THEN declared[1] + fermi[1]
                       ELSE declared[1]
            ceiling == job_inputs["wannier90_pp"].parameters.dis_froz_max
            bands == outputs["projwfc"][1].bands
        IN  IF declared = None
            THEN ceiling = None
            ELSE ceiling = Some(Min(MinBandEnergy(bands, inputs.parameters.num_wann), shifted))

\* the value of a window key after a shift by fermi_energy
ShiftedBy(value, fermi_energy) ==
    IF value = None THEN None ELSE Some(value[1] + fermi_energy)

\* C32: with relative_dis_windows True and a Fermi energy E_F each of
\* dis_froz_min, dis_froz_max, dis_win_min, dis_win_max that is present is
\* raised by exactly E_F by the shift and an absent one stays absent; with
\* relative_dis_windows False none is changed. The bundle of wannier90_pp shows
\* it for the three keys no later step writes.
C32_WindowsShiftedByFermi ==
    jobs["wannier90_pp"] # "none" =>
        LET declared == inputs.parameters
            launched == job_inputs["wannier90_pp"].parameters
            fermi == outputs["scf"][1].output_parameters.fermi_energy
        IN  IF inputs.relative_dis_windows
            THEN /\ \A i \in 1..Len(WindowKeys) :
                        ShiftWindows(declared, fermi[1])[WindowKeys[i]]
                            = ShiftedBy(declared[WindowKeys[i]], fermi[1])
                 /\ \A k \in {"dis_froz_min", "dis_win_min", "dis_win_max"} :
                        launched[k] = ShiftedBy(declared[k], fermi[1])
            ELSE \A k \in {"dis_froz_min", "dis_win_min", "dis_win_max"} :
                        launched[k] = declared[k]

C32_Witness ==
    /\ jobs["wannier90_pp"] # "none"
    /\ inputs.relative_dis_windows
    /\ inputs.parameters.dis_froz_min = Some(1)
    /\ inputs.parameters.dis_win_min = None
    /\ inputs.parameters.dis_win_max = Some(MaxEnergy)
    /\ job_inputs["wannier90_pp"].parameters.dis_froz_min = Some(2)
    /\ job_inputs["wannier90_pp"].parameters.dis_win_min = None
    /\ job_inputs["wannier90_pp"].parameters.dis_win_max = Some(MaxEnergy + 1)

\* C34: the inputpp a fitted pw2wannier90 job is launched with has a scdm_mu
\* written by the fit only where the inputs had none, and likewise a
\* scdm_sigma; a scdm_mu or scdm_sigma of the inputs is the same in the
\* launched inputpp, and every other entry is the one of the inputs.
C34_FitFillsOnlyMissing ==
    (jobs["pw2wannier90"] # "none" /\ job_inputs["pw2wannier90"].fitted) =>
        LET declared == inputs.inputpp
            launched == job_inputs["pw2wannier90"].inputpp
        IN  /\ DOMAIN launched = DOMAIN declared
            /\ \A key \in DOMAIN declared :
                    IF key \in {"scdm_mu", "scdm_sigma"} /\ declared[key] = None
                    THEN \E e \in Energies : launched[key] = Some(e)
                    ELSE launched[key] = declared[key]

C34_Witness ==
    /\ jobs["pw2wannier90"] # "none"
    /\ job_inputs["pw2wannier90"].fitted
    /\ inputs.inputpp.scdm_mu = Some(1)
    /\ inputs.inputpp.scdm_sigma = None
    /\ job_inputs["pw2wannier90"].inputpp.scdm_mu = Some(1)
    /\ job_inputs["pw2wannier90"].inputpp.scdm_sigma = Some(MaxEnergy)

\* C35: a work chain in which projwfc did not run builds the bundle of
\* wannier90_pp without reading the outputs of projwfc, whatever auto_froz_max
\* and dis_froz_max are.
C35_ProjwfcReadOnlyIfRan ==
    (pc = "run_wannier90_pp" /\ "projwfc" \notin ctx.keys) =>
        prepare_wannier90_inputs.raised # "AttributeError"

C38_FermiNeededOnlyForRelativeWindows ==
    (/\ pc = "run_wannier90_pp"
     /\ ~inputs.relative_dis_windows
     /\ jobs["scf"] = "finished_ok") =>
        prepare_wannier90_inputs.raised # "ValueError"

\* ---------------------------------------------------------------- claims: functions

\* C15: get_fermi_energy returns the stored fermi_energy when
\* fermi_energy_units is exactly 'eV' and None for every other unit, a missing
\* unit included; it raises nothing and converts nothing.
C15_FermiEnergyExactUnit ==
    (fresult.done /\ fcall.function = "get_fermi_energy") =>
        /\ fresult.raised = "none"
        /\ fcall.output_parameters.fermi_energy_units = <<"eV">>
              => fresult.value = fcall.output_parameters.fermi_energy
        /\ fcall.output_parameters.fermi_energy_units # <<"eV">> => fresult.value = <<>>

C15_Witness ==
    /\ fresult.done
    /\ fcall.function = "get_fermi_energy"
    /\ fcall.output_parameters = [fermi_energy |-> <<2>>, fermi_energy_units |-> <<"Ry">>]
    /\ fresult.value = <<>>

\* the number of occurrences of x in list
Count(list, x) == Cardinality({i \in 1..Len(list) : list[i] = x})

\* some site is left with a semicore orbital that its pseudo-wavefunction list
\* does not consume
Unconsumed(structure, pseudo_orbitals) ==
    \E s \in 1..Len(structure) :
        LET entry == pseudo_orbitals[structure[s]]
        IN  \E i \in 1..Len(entry.semicores) :
                Count(entry.semicores, entry.semicores[i]) > Count(entry.pswfcs, entry.semicores[i])

\* C20: get_semicore_list raises exactly when some site is left with an
\* unconsumed semicore orbital, and returns the list of indices otherwise.
C20_SemicoreRaisesIffUnconsumed ==
    (fresult.done /\ fcall.function = "get_semicore_list") =>
        /\ fresult.raised # "none" <=> Unconsumed(fcall.structure, fcall.pseudo_orbitals)
        /\ ~Unconsumed(fcall.structure, fcall.pseudo_orbitals) => fresult.type = "list"

\* the number of pseudo-wavefunctions an orbital label stands for: 2l + 1
Width(orb) ==
    LET letter == orb[Len(orb)]
        l == IF letter = "S" THEN 0 ELSE IF letter = "P" THEN 1 ELSE IF letter = "D" THEN 2 ELSE 3
    IN  2 * l + 1

\* the pseudo-wavefunctions of the orbitals of one site before its i-th orbital
RECURSIVE WidthBefore(_, _)
WidthBefore(pswfcs, i) ==
    IF i <= 1 THEN 0 ELSE WidthBefore(pswfcs, i - 1) + Width(pswfcs[i - 1])

\* the pseudo-wavefunctions of the sites before the s-th site
RECURSIVE SitesBefore(_, _, _)
SitesBefore(structure, pseudo_orbitals, s) ==
    IF s <= 1
    THEN 0
    ELSE LET pswfcs == pseudo_orbitals[structure[s - 1]].pswfcs
         IN  SitesBefore(structure, pseudo_orbitals, s - 1) + WidthBefore(pswfcs, Len(pswfcs) + 1)

\* the i-th orbital of an entry is one of its semicore orbitals
IsSemicore(entry, i) ==
    Cardinality({j \in 1..i : entry.pswfcs[j] = entry.pswfcs[i]})
        <= Count(entry.semicores, entry.pswfcs[i])

\* the indices of the pseudo-wavefunctions of the semicore orbitals
SemicoreIndices(structure, pseudo_orbitals) ==
    UNION { LET entry == pseudo_orbitals[structure[s]]
            IN  UNION { LET offset == SitesBefore(structure, pseudo_orbitals, s)
                                        + WidthBefore(entry.pswfcs, i)
                        IN  IF IsSemicore(entry, i)
                            THEN (offset + 1)..(offset + Width(entry.pswfcs[i]))
                            ELSE {} : i \in 1..Len(entry.pswfcs) } :
            s \in 1..Len(structure) }

\* C21: for metadata in which every semicore orbital is one of the site's
\* pseudo-wavefunctions, get_semicore_list returns, in increasing order, exactly
\* the indices offset+1..offset+count of the semicore orbitals, count being
\* 1/3/5/7 for S/P/D/F and offset the counts of all the orbitals before it.
C21_SemicoreIndexRanges ==
    (/\ fresult.done
     /\ fcall.function = "get_semicore_list"
     /\ ~Unconsumed(fcall.structure, fcall.pseudo_orbitals)) =>
        /\ fresult.raised = "none"
        /\ fresult.type = "list"
        /\ \A i \in 1..(Len(fresult.value) - 1) : fresult.value[i] < fresult.value[i + 1]
        /\ Range(fresult.value) = SemicoreIndices(fcall.structure, fcall.pseudo_orbitals)

C21_Witness ==
    /\ fresult.done
    /\ fcall.function = "get_semicore_list"
    /\ fcall.structure = <<"A", "A">>
    /\ fcall.pseudo_orbitals["A"] =
          [pswfcs |-> << <<"1", "S">>, <<"2", "P">> >>, semicores |-> << <<"1", "S">> >>]
    /\ fresult.type = "list"
    /\ fresult.value = <<1, 5>>

\* a finished call of the builder, and one that returned a builder
BuilderCall == fresult.done /\ fcall.function = "get_builder_from_protocol"

BuilderReturned == BuilderCall /\ fresult.raised = "none"

\* C22: with disentanglement_type AUTO the builder resolves INSULATOR to NONE,
\* METAL with HYDROGEN or RANDOM to WINDOW_FIXED, METAL with NUMERIC to
\* WINDOW_AND_PROJECTABILITY and METAL with SCDM to NONE; any other
\* disentanglement_type is passed through unchanged.
C22_AutoDisentanglementResolved ==
    BuilderReturned =>
        LET given == fcall.disentanglement_type
            resolved == fresult.summary.WannierDisentanglementType
        IN  /\ given # "AUTO" => resolved = given
            /\ (given = "AUTO" /\ fcall.electronic_type = "INSULATOR") => resolved = "NONE"
            /\ (given = "AUTO" /\ fcall.electronic_type = "METAL") =>
                  /\ fcall.projection_type \in {"HYDROGEN", "RANDOM"} => resolved = "WINDOW_FIXED"
                  /\ fcall.projection_type = "NUMERIC" => resolved = "WINDOW_AND_PROJECTABILITY"
                  /\ fcall.projection_type = "SCDM" => resolved = "NONE"
            /\ resolved = "NONE" <=> fresult.wannier90.parameters["dis_num_iter"] = 0

C22_Witness ==
    /\ BuilderReturned
    /\ fcall.disentanglement_type = "AUTO"
    /\ fcall.electronic_type = "INSULATOR"
    /\ fcall.projection_type = "HYDROGEN"
    /\ fresult.summary.WannierDisentanglementType = "NONE"

\* C23: the builder enables the projwfc stage, whether or not the protocol
\* asks for it, whenever projection_type is SCDM or the disentanglement type
\* is WINDOW_AUTO.
C23_ProjwfcEnabled ==
    BuilderReturned =>
        ((fcall.projection_type = "SCDM" \/ fcall.disentanglement_type = "WINDOW_AUTO")
            => "projwfc" \in fresult.namespaces)

C23_Witness ==
    /\ BuilderReturned
    /\ ~fcall.protocol.projwfc
    /\ fcall.projection_type = "HYDROGEN"
    /\ fcall.disentanglement_type = "WINDOW_AUTO"
    /\ "projwfc" \in fresult.namespaces

\* the pseudos of every site of the structure have no semicore orbital
NoSemicores(a) ==
    \A s \in 1..Len(a.structure) : a.pseudo_orbitals[a.structure[s]].semicores = <<>>

\* C24: for a structure with no semicore orbitals, projection_type SCDM,
\* electronic_type METAL and disentanglement AUTO the builder returns a builder
\* with projwfc enabled, dis_num_iter = 0 and num_wann the number of projections.
C24_BuilderCompletesWithoutSemicores ==
    (/\ BuilderCall
     /\ NoSemicores(fcall)
     /\ fcall.projection_type = "SCDM"
     /\ fcall.electronic_type = "METAL"
     /\ fcall.disentanglement_type = "AUTO"
     /\ fcall.codes = DefaultArguments.codes
     /\ fcall.protocol = DefaultArguments.protocol
     /\ ~fcall.retrieve_matrices) =>
        /\ fresult.raised = "none"
        /\ "projwfc" \in fresult.namespaces
        /\ fresult.wannier90.parameters["dis_num_iter"] = 0
        /\ fresult.wannier90.parameters["num_wann"] = fcall.num_projs

\* a finished call of get_wannier90_inputs or of the builder, and the
\* parameters of the bundle it returned
WannierCall ==
    fresult.done /\ fcall.function \in {"get_wannier90_inputs", "get_builder_from_protocol"}

ReturnedParameters ==
    IF fcall.function = "get_wannier90_inputs"
    THEN fresult.parameters
    ELSE fresult.wannier90.parameters

\* the number of semicore indices found, and num_wann before the exclusion
SemicoreCount(a) == Cardinality(SemicoreIndices(a.structure, a.pseudo_orbitals))

BaseNumWann(a) == IF a.electronic_type = "INSULATOR" THEN a.nbands ELSE a.num_projs

\* the call gets as far as counting the bands: the arguments pass the checks,
\* the stages before wannier90 are built and the semicore list is a list
ReachesBandCount(a) ==
    /\ a.exclude_semicores => ~Unconsumed(a.structure, a.pseudo_orbitals)
    /\ a.function = "get_builder_from_protocol" =>
          /\ a.codes.is_dict
          /\ {"pw", "pw2wannier90", "wannier90"} \subseteq a.codes.keys
          /\ a.electronic_type \in {"METAL", "INSULATOR"}
          /\ a.spin_type = "NONE"
          /\ a.initial_magnetic_moments = None
          /\ (a.protocol.projwfc \/ a.projection_type = "SCDM"
                \/ a.disentanglement_type = "WINDOW_AUTO") => "projwfc" \in a.codes.keys
          /\ a.protocol.wannier90

\* C25: no Wannier bundle is returned with num_wann <= 0: when num_wann after
\* the semicore exclusion is zero or negative the call raises ValueError.
C25_NumWannPositive ==
    WannierCall =>
        /\ fresult.raised = "none" => ReturnedParameters["num_wann"] > 0
        /\ (/\ ReachesBandCount(fcall)
            /\ BaseNumWann(fcall)
                 - (IF fcall.exclude_semicores THEN SemicoreCount(fcall) ELSE 0) <= 0)
              => fresult.raised = "ValueError"

C25_Witness ==
    /\ BuilderCall
    /\ fcall.electronic_type = "METAL"
    /\ fcall.exclude_semicores
    /\ fcall.structure = <<"A">>
    /\ fcall.pseudo_orbitals["A"].semicores = << <<"1", "S">> >>
    /\ fcall.num_projs = 1
    /\ fresult.raised = "ValueError"

\* C26: with the semicore exclusion on and n > 0 semicore indices found the
\* bundle has exclude_bands = 1..n and num_bands and num_wann lowered by n; with
\* n = 0 or the exclusion off the two counts are as given and there is no
\* exclude_bands.
C26_SemicoreExclusion ==
    (WannierCall /\ fresult.raised = "none") =>
        LET n == SemicoreCount(fcall)
            parameters == ReturnedParameters
        IN  IF fcall.exclude_semicores /\ n > 0
            THEN /\ "exclude_bands" \in DOMAIN parameters
                 /\ parameters["exclude_bands"] = [i \in 1..n |-> i]
                 /\ parameters["num_bands"] = fcall.nbands - n
                 /\ parameters["num_wann"] = BaseNumWann(fcall) - n
            ELSE /\ "exclude_bands" \notin DOMAIN parameters
                 /\ parameters["num_bands"] = fcall.nbands
                 /\ parameters["num_wann"] = BaseNumWann(fcall)

C26_Witness ==
    /\ fresult.done
    /\ fcall.function = "get_wannier90_inputs"
    /\ fresult.raised = "none"
    /\ fcall.exclude_semicores
    /\ fcall.structure = <<"A", "A">>
    /\ fcall.pseudo_orbitals["A"].semicores = << <<"1", "S">> >>
    /\ fcall.nbands = 3
    /\ fresult.parameters["exclude_bands"] = <<1, 2>>
    /\ fresult.parameters["num_bands"] = 1

\* C27: the builder raises, with no stage inputs assigned, for every
\* electronic_type other than METAL and INSULATOR, for every spin_type other
\* than NONE, and for initial_magnetic_moments given with a spin_type other
\* than COLLINEAR; the builder it returns carries the types it was given.
C27_ArgumentsRejected ==
    BuilderCall =>
        /\ (\/ fcall.electronic_type \notin {"METAL", "INSULATOR"}
            \/ fcall.spin_type # "NONE"
            \/ (fcall.initial_magnetic_moments # None /\ fcall.spin_type # "COLLINEAR"))
              => (fresult.raised # "none" /\ fresult.namespaces = {})
        /\ fresult.raised = "none" =>
              /\ fresult.summary.ElectronicType = fcall.electronic_type
              /\ fresult.summary.SpinType = fcall.spin_type

C27_Witness ==
    /\ BuilderCall
    /\ fcall.codes = DefaultArguments.codes
    /\ fcall.electronic_type = "AUTOMATIC"
    /\ fcall.spin_type = "NONE"
    /\ fcall.initial_magnetic_moments = None
    /\ fresult.raised = "NotImplementedError"
    /\ fresult.namespaces = {}

\* the positions of the calculation jobs among the descendants, and of those
\* whose folder can be cleaned
CalcJobs(called_descendants) ==
    {i \in 1..Len(called_descendants) : called_descendants[i].node_type = "CalcJobNode"}

Releasable(called_descendants) ==
    {i \in CalcJobs(called_descendants) : called_descendants[i].release = "cleaned"}

\* C29: with clean_workdir set, on_terminated raises nothing when the release
\* of a descendant fails with an I/O error, an OS error or a missing remote
\* folder; the release is attempted on every descendant calculation job and the
\* jobs reported are exactly those whose release succeeded. With clean_workdir
\* unset nothing is released.
C29_CleanupSwallowsFailures ==
    (fresult.done /\ fcall.function = "on_terminated") =>
        IF fcall.inputs.clean_workdir
        THEN (\A i \in CalcJobs(fcall.called_descendants) :
                  fcall.called_descendants[i].release
                      \in {"cleaned", "IOError", "OSError", "no_remote_folder"}) =>
                /\ fresult.raised = "none"
                /\ Range(fresult.attempted) = CalcJobs(fcall.called_descendants)
                /\ Range(fresult.cleaned_calcs) = Releasable(fcall.called_descendants)
                /\ Releasable(fcall.called_descendants) # {} =>
                      fresult.reported =
                          << <<"cleaned remote folders of calculations", fresult.cleaned_calcs>> >>
        ELSE fresult.attempted = <<>> /\ fresult.cleaned_calcs = <<>>

\* the disentanglement type a finished call built its bundle for
ResolvedDisentanglement ==
    IF fcall.function = "get_wannier90_inputs"
    THEN fcall.disentanglement_type
    ELSE fresult.summary.WannierDisentanglementType

\* C33: for PROJECTABILITY and WINDOW_AND_PROJECTABILITY the bundle returned
\* has both thresholds of projectability, dis_proj_min 0.01 and dis_proj_max
\* 0.95.
C33_BothProjectabilityThresholds ==
    (/\ WannierCall
     /\ fresult.raised = "none"
     /\ ResolvedDisentanglement \in {"PROJECTABILITY", "WINDOW_AND_PROJECTABILITY"}) =>
        /\ "dis_proj_min" \in DOMAIN ReturnedParameters
        /\ "dis_proj_max" \in DOMAIN ReturnedParameters
        /\ ReturnedParameters["dis_proj_min"] = "0.01"
        /\ ReturnedParameters["dis_proj_max"] = "0.95"

\* C36: whenever the parameters of the builder returned have dis_froz_max the
\* builder has the projwfc stage enabled.
C36_FrozMaxHasProjwfc ==
    (BuilderReturned /\ "dis_froz_max" \in DOMAIN fresult.wannier90.parameters) =>
        "projwfc" \in fresult.namespaces

\* C40: for each of WINDOW_FIXED, WINDOW_AUTO, PROJECTABILITY and
\* WINDOW_AND_PROJECTABILITY get_wannier90_inputs returns a bundle with
\* dis_conv_tol whether or not maximal_localisation is on: a call that returns
\* with maximal_localisation on returns with it off as well.
C40_ConvTolForEveryLocalisation ==
    (/\ fresult.done
     /\ fcall.function = "get_wannier90_inputs"
     /\ fcall.disentanglement_type \in {"WINDOW_FIXED", "WINDOW_AUTO", "PROJECTABILITY",
                                         "WINDOW_AND_PROJECTABILITY"}
     /\ get_wannier90_inputs([fcall EXCEPT !.maximal_localisation = TRUE]).raised = "none") =>
        /\ fresult.raised = "none"
        /\ "dis_conv_tol" \in DOMAIN fresult.parameters

\* ---------------------------------------------------------------- claims: restart loop

\* a step of inspect_process that calls handle_output_stdout_incomplete
HandlerStep ==
    /\ rpc = "inspect_process"
    /\ rpc' # "inspect_process"
    /\ calculation.status = "finished_failed"
    /\ calculation.exit_status = 311

\* num_mpiprocs_per_machine of an input bundle, 1 if unset
Procs(bundle) ==
    IF bundle.num_mpiprocs_per_machine = <<>> THEN 1 ELSE bundle.num_mpiprocs_per_machine[1]

\* the handler has reported retry: break, no exit code, the loop goes on
ReportsRetry ==
    /\ handled'.report = <<[do_break |-> TRUE, exit_code |-> 0]>>
    /\ rpc' = "run_process"

\* the handler has reported unrecoverable: the work chain ends with 311
ReportsUnrecoverable ==
    /\ handled'.report = <<[do_break |-> TRUE, exit_code |-> 311]>>
    /\ rpc' = "terminated"
    /\ rexit_status' = 311

\* the scheduler stderr values of the model that carry the out-of-memory signature
SignatureStderr ==
    { <<<< <<"slurmstepd:", "error:", "Detected", "1", "oom-kill", "event(s)", "in", "step", "123.0">>,
           <<"srun:", "error:", "task", "0:", "Out", "Of", "Memory">> >>>>,
      <<<< <<"warning">>, <<"Detected", "12", "oom-kill", "event(s)", "in", "step">> >>>>,
      <<<< <<"node001:", "Out", "Of", "Memory">> >>>> }

\* the scheduler stderr values of the model without the signature
NoSignatureStderr ==
    { <<<< <<>> >>>>,
      <<<< <<"Segmentation", "fault">> >>>>,
      <<<< <<"Detected", "oom-kill", "event(s)", "in", "step">> >>>>,
      <<<< <<"Out", "of", "memory">>, <<>> >>>> }

\* C6: with the signature present and current value p (1 if unset), the handler
\* sets num_mpiprocs_per_machine to floor(p/2) and reports retry when p >= 2;
\* when p = 1 it reports unrecoverable (311) and leaves the inputs as they are.
C6_OomHalving ==
    [][(HandlerStep /\ calculation.scheduler_stderr \in SignatureStderr) =>
        LET p == Procs(rctx.inputs)
        IN  /\ p >= 2 => /\ rctx'.inputs.num_mpiprocs_per_machine = <<p \div 2>>
                         /\ ReportsRetry
            /\ p = 1 => /\ rctx'.inputs = rctx.inputs
                        /\ ReportsUnrecoverable]_vars

C6_Witness ==
    /\ handled.called
    /\ handled.outcome = "floor"
    /\ rpc = "terminated"
    /\ calculation.pk = 3
    /\ rctx.exposed.num_mpiprocs_per_machine = <<4>>

\* C7: after a retry, the settings of the next submission carry floor(n/2)
\* after every pool flag (-nk, -npools) that was followed by a number n.
C7_PoolCountHalved ==
    [][(HandlerStep /\ ReportsRetry /\ rctx.inputs.settings # <<>>
            /\ rctx.inputs.settings[1].cmdline # <<>>) =>
        LET cmdline == rctx.inputs.settings[1].cmdline[1]
        IN  \A i \in 1..(Len(cmdline) - 1) :
                (/\ cmdline[i] \in {"-nk", "-npools"}
                 /\ \A j \in 1..(i - 1) : cmdline[j] # cmdline[i]
                 /\ int(cmdline[i + 1]) # <<>>)
                => /\ rctx'.inputs.settings # <<>>
                   /\ rctx'.inputs.settings[1].cmdline # <<>>
                   /\ int(rctx'.inputs.settings[1].cmdline[1][i + 1])
                        = <<int(cmdline[i + 1])[1] \div 2>>]_vars

C9_ProcsAtLeastOne ==
    /\ rpc \notin {"idle", "setup"} => Procs(rctx.inputs) >= 1
    /\ calculation.status # "none" => Procs(calculation.inputs) >= 1

C9_Witness ==
    /\ handled.called
    /\ handled.outcome = "halved"
    /\ rctx.exposed.num_mpiprocs_per_machine = <<3>>
    /\ rctx.inputs.num_mpiprocs_per_machine = <<1>>
    /\ calculation.status = "running"
    /\ calculation.inputs.num_mpiprocs_per_machine = <<1>>

\* C10: when every calculation fails with the out-of-memory signature the loop
\* ends in a terminal failure: every retry strictly lowers the value, and a
\* call of the handler at value 1 reports unrecoverable.
C10_OomLoopTerminates ==
    /\ <>(rpc = "terminated" /\ rexit_status # 0)
    /\ [][(HandlerStep /\ ReportsRetry) => Procs(rctx'.inputs) < Procs(rctx.inputs)]_vars
    /\ [][(HandlerStep /\ Procs(rctx.inputs) = 1) => ReportsUnrecoverable]_vars

C10_Witness ==
    /\ rpc = "terminated"
    /\ rexit_status = 311
    /\ handled.outcome = "floor"
    /\ Len(reports) = 6
    /\ rctx.exposed.num_mpiprocs_per_machine = <<4>>

\* the tokens of the model's command lines that are integer literals
IntegerLiteralTokens == {"0", "1", "2", "3", "4", "5", "6", "7", "8", "9", "04", "+2", " 8 "}

\* position i of cmdline holds the first occurrence of a pool-count flag
PoolFlagAt(cmdline, i) ==
    /\ cmdline[i] \in {"-nk", "-npools"}
    /\ \A j \in 1..(i - 1) : cmdline[j] # cmdline[i]

\* the pool-count flag at position i is the last token or is followed by a
\* token that is not an integer literal
MalformedAt(cmdline, i) ==
    /\ PoolFlagAt(cmdline, i)
    /\ i = Len(cmdline) \/ cmdline[i + 1] \notin IntegerLiteralTokens

\* C11: with the signature present and a process count of at least 2, a pool
\* flag that is the last token or is followed by a token that is not an integer
\* literal stays as it is, with the token after it, in the handler's list; the
\* list keeps its length, and is unchanged when no pool flag of it is followed
\* by an integer literal; the handler does not raise and reports retry with the
\* halved process count.
C11_MalformedPoolCount ==
    [][(/\ HandlerStep
        /\ calculation.scheduler_stderr \in SignatureStderr
        /\ Procs(rctx.inputs) >= 2
        /\ rctx.inputs.settings # <<>>
        /\ rctx.inputs.settings[1].cmdline # <<>>) =>
        LET cmdline == rctx.inputs.settings[1].cmdline[1]
        IN  \A i \in 1..Len(cmdline) :
                MalformedAt(cmdline, i) =>
                    /\ rpc' # "excepted"
                    /\ ReportsRetry
                    /\ rctx'.inputs.num_mpiprocs_per_machine = <<Procs(rctx.inputs) \div 2>>
                    /\ rctx'.inputs.settings = rctx.inputs.settings
                    /\ handled'.cmdline # <<>>
                    /\ Len(handled'.cmdline[1]) = Len(cmdline)
                    /\ handled'.cmdline[1][i] = cmdline[i]
                    /\ i < Len(cmdline) => handled'.cmdline[1][i + 1] = cmdline[i + 1]
                    /\ (\A j \in 1..Len(cmdline) : PoolFlagAt(cmdline, j) => MalformedAt(cmdline, j))
                        => handled'.cmdline[1] = cmdline]_vars

C11_Witness ==
    /\ handled.called
    /\ handled.outcome = "halved"
    /\ handled.cmdline = << <<"-nk", "2.5">> >>
    /\ rctx.exposed.num_mpiprocs_per_machine = <<4>>
    /\ rctx.inputs.num_mpiprocs_per_machine = <<2>>
    /\ rpc = "run_process"

\* C12: every call of the handler that ends in one of its three outcomes (no
\* signature, floor reached, halved) appends to the reports the message naming
\* the failed calculation with its exit status and exit message, followed by
\* the message of the action taken.
C12_AuditReport ==
    [][(HandlerStep /\ handled'.outcome \in {"no_oom", "floor", "halved"}) =>
        /\ Len(reports') = Len(reports) + 2
        /\ \A i \in 1..Len(reports) : reports'[i] = reports[i]
        /\ reports'[Len(reports) + 1] =
              [failed |-> calculation.pk, exit_status |-> calculation.exit_status,
               exit_message |-> calculation.exit_message]
        /\ DOMAIN reports'[Len(reports) + 2] = {"action_taken"}
        /\ handled'.outcome = "no_oom" =>
              reports'[Len(reports) + 2].action_taken = "Unrecoverable incomplete stdout error"
        /\ handled'.outcome = "floor" =>
              reports'[Len(reports) + 2].action_taken = "Unrecoverable out-of-memory error"
        /\ handled'.outcome = "halved" =>
              reports'[Len(reports) + 2].action_taken =
                  <<"Out-of-memory error", Procs(rctx.inputs), Procs(rctx'.inputs)>>]_vars

C12_Witness ==
    /\ handled.called
    /\ handled.outcome = "no_oom"
    /\ Len(reports) = 4
    /\ reports[1].failed = 1
    /\ reports[3].failed = 2
    /\ reports[3].exit_status = 311
    /\ reports[4].action_taken = "Unrecoverable incomplete stdout error"
    /\ rpc = "terminated"


\* C39: the pool count the out-of-memory handler computes for a -nk / -npools
\* flag followed by a number n >= 1 is at least 1, also for n = 1.
C39_PoolCountAtLeastOne ==
    (/\ handled.called
     /\ handled.outcome = "halved"
     /\ handled.cmdline # None) =>
        LET cmdline == rctx.inputs.settings[1].cmdline[1]
            computed == handled.cmdline[1]
        IN  \A i \in 1..(Len(cmdline) - 1) :
                (/\ cmdline[i] \in {"-nk", "-npools"}
                 /\ \A j \in 1..(i - 1) : cmdline[j] # cmdline[i]
                 /\ int(cmdline[i + 1]) # None
                 /\ int(cmdline[i + 1])[1] >= 1)
                => /\ int(computed[i + 1]) # None
                   /\ int(computed[i + 1])[1] >= 1

====
